---- MODULE Spec2Model ----
(***************************************************************************)
(* The WebGPU ray tracer of aparimeya.art: the RayTracer orchestrator      *)
(* (src/src/lib/engine/raytracer.ts), the display/blend fragment shader    *)
(* (second half of src/src/lib/engine/shaders/raytracer-compute.wgsl) and  *)
(* the scene component that drives them (src/vite.config.ts, line 21 on).  *)
(*                                                                         *)
(* A texture is modelled by its identity, its size and one representative  *)
(* texel; every texel of a target goes through the same shader code.  A    *)
(* texel is one colour channel c and the alpha channel a, each an 8-bit    *)
(* unorm level 0..MaxLevel (rgba8unorm).                                   *)
(***************************************************************************)
EXTENDS Integers, Sequences, FiniteSets, TLC

\* ------------------------------------------------------------------ bounds

\* Textures the device hands out before the model stops reallocating.
MaxTextures == 6

\* Input and slider events the scene component handles, and frames its loop
\* renders, before the model stops.
MaxEvents == 2
MaxTicks == 3
\* Largest frame index a caller passes to RayTracer.render directly.
MaxFrameArg == 5
\* A mid-grey sample level, beside black and white.
MidSample == 100
\* Blended frames (frame index >= 5) rendered in a row on one accumulation
\* history, before a clear or a pass-through frame starts a new one.
MaxBlends == 2

\* ------------------------------------------------------- program constants

\* rgba8unorm: 8 bits per channel, levels 0..255.
MaxLevel == 255
\* display shader: shouldAccumulate = frameCount >= 5.0
AccumulateFrom == 5

Levels == 0..MaxLevel
Samples == {0, MidSample, MaxLevel}
\* The frame indices callers pass: the first, the last one passed through, the largest.
FrameArgs == {0, AccumulateFrom - 1, MaxFrameArg}

\* A texture as the device creates it: WebGPU zero-initialises resources.
ZeroTexel == [c |-> 0, a |-> 0]
\* clearValue { r: 0, g: 0, b: 0, a: 1.0 }
ClearValue == [c |-> 0, a |-> MaxLevel]

\* The settings the orchestrator is constructed with.
InitialSettings ==
  [renderWidth |-> 2, renderHeight |-> 2, displayWidth |-> 4, displayHeight |-> 4,
   maxBounces |-> 1, raysPerPixel |-> 1]

\* interface RenderSettings: the settings objects callers pass, each differing
\* from the initial one in one field, one in a render and a display dimension, and
\* one differing in all fields.
RenderSettings ==
  { InitialSettings,
    [InitialSettings EXCEPT !.renderWidth = 3],
    [InitialSettings EXCEPT !.renderWidth = 3, !.displayWidth = 6],
    [InitialSettings EXCEPT !.renderHeight = 3],
    [InitialSettings EXCEPT !.displayWidth = 6],
    [InitialSettings EXCEPT !.displayHeight = 6],
    [InitialSettings EXCEPT !.maxBounces = 2],
    [renderWidth |-> 3, renderHeight |-> 3, displayWidth |-> 6, displayHeight |-> 6,
     maxBounces |-> 2, raysPerPixel |-> 2] }

Abs(x) == IF x < 0 THEN -x ELSE x

\* ------------------------------------------------- fixed-point arithmetic

\* Lengths and vector components are kept in thousandths, angles in 1/10000 rad;
\* the program computes in IEEE doubles.
Milli == 10 ^ 3
AngleScale == 10 ^ 4

\* Math.PI in 1/10000 rad.
Pi == 31416
HalfPi == Pi \div 2
TwoPi == 2 * Pi

\* a / b rounded to a nearest integer (b > 0).
RDiv(a, b) == (2 * a + b) \div (2 * b)

RECURSIVE ISqrtBetween(_, _, _)
ISqrtBetween(n, lo, hi) ==
  IF lo >= hi THEN lo
  ELSE LET mid == (lo + hi + 1) \div 2
       IN  IF mid * mid <= n THEN ISqrtBetween(n, mid, hi)
                             ELSE ISqrtBetween(n, lo, mid - 1)

\* Math.sqrt, rounded down.
ISqrt(n) == ISqrtBetween(n, 0, 46340)

\* sin on the first quadrant, argument and result in 1/10000: the Taylor series
\* to the x^9 term, x2 = x^2.
SinTerm(x2, t, k) == AngleScale - RDiv(RDiv(x2 * t, AngleScale), k)

SinSeries(x, x2) ==
  RDiv(x * SinTerm(x2, SinTerm(x2, SinTerm(x2, SinTerm(x2, AngleScale, 72), 42), 20), 6),
       AngleScale)

SinQuadrant(x) == SinSeries(x, RDiv(x * x, AngleScale))

\* An angle m in [0, 2 pi) folded onto the first quadrant, and the sign of its sine.
QuadrantArg(m) ==
  IF m <= HalfPi THEN m ELSE IF m <= Pi + HalfPi THEN Abs(Pi - m) ELSE TwoPi - m

QuadrantSign(m) == IF m <= Pi THEN 1 ELSE -1

SinFolded(m) == QuadrantSign(m) * SinQuadrant(QuadrantArg(m))

\* Math.sin and Math.cos of an angle in 1/10000 rad, in 1/10000.
Sin(a) == SinFolded(a % TwoPi)

Cos(a) == Sin(a + HalfPi)

\* sin(a) * x - cos(a) * y: negative while a is below the direction of (x, y).
Side(a, y, x) == Sin(a) * x - Cos(a) * y

RECURSIVE AtanBetween(_, _, _, _)
\* The angle in [lo, hi] within [-pi/2, pi/2] whose direction is (x, y), x >= 0:
\* bisection on Side, which increases with the angle.
AtanBetween(y, x, lo, hi) ==
  IF hi - lo <= 1
  THEN IF Abs(Side(lo, y, x)) <= Abs(Side(hi, y, x)) THEN lo ELSE hi
  ELSE IF Side((lo + hi) \div 2, y, x) < 0
       THEN AtanBetween(y, x, (lo + hi) \div 2, hi)
       ELSE AtanBetween(y, x, lo, (lo + hi) \div 2)

\* The angle of (x, y) from the angle a of (|x|, y).
AtanQuadrant(a, y, x) == IF x >= 0 THEN a ELSE IF y >= 0 THEN Pi - a ELSE -Pi - a

\* Math.atan2(y, x) in 1/10000 rad, for y and x in thousandths.
Atan2(y, x) ==
  IF x = 0 /\ y = 0 THEN 0
  ELSE AtanQuadrant(AtanBetween(y, Abs(x), -HalfPi, HalfPi), y, x)

\* ------------------------------------------------------------- Vector3

Vector3(x, y, z) == <<x, y, z>>

\* add, sub
add(v, w) == <<v[1] + w[1], v[2] + w[2], v[3] + w[3]>>
sub(v, w) == <<v[1] - w[1], v[2] - w[2], v[3] - w[3]>>

\* mul(scalar), div(scalar): the scalar in thousandths.
mul(v, k) == <<RDiv(v[1] * k, Milli), RDiv(v[2] * k, Milli), RDiv(v[3] * k, Milli)>>
div(v, k) == <<RDiv(v[1] * Milli, k), RDiv(v[2] * Milli, k), RDiv(v[3] * Milli, k)>>

dot(v, w) == RDiv(v[1] * w[1] + v[2] * w[2] + v[3] * w[3], Milli)

cross(v, w) ==
  <<RDiv(v[2] * w[3] - v[3] * w[2], Milli),
    RDiv(v[3] * w[1] - v[1] * w[3], Milli),
    RDiv(v[1] * w[2] - v[2] * w[1], Milli)>>

length(v) == ISqrt(v[1] * v[1] + v[2] * v[2] + v[3] * v[3])

\* normalize: const len = this.length(); the zero vector stays zero.
normalizeBy(v, len) == IF len = 0 THEN <<0, 0, 0>> ELSE div(v, len)

normalize(v) == normalizeBy(v, length(v))

\* Vector3.up()
Up == <<0, Milli, 0>>

\* ------------------------------------------------------------- Camera

\* a / b rounded to a nearest integer, b of either sign.
RDivSigned(a, b) == IF b < 0 THEN RDiv(-a, -b) ELSE RDiv(a, b)

\* Math.PI / 2 - 0.01, the pitch clamp.
PitchLimit == HalfPi - 100

\* The fixed look distance (const distance = 5), in thousandths.
LookDistance == 5 * Milli

\* updateTargetFromAngles: the direction
\* (sinYaw * cosPitch, -sinPitch, cosYaw * cosPitch).
direction(sinPitch, cosPitch, sinYaw, cosYaw) ==
  <<RDiv(sinYaw * cosPitch, 10 ^ 5), RDiv(-sinPitch, 10), RDiv(cosYaw * cosPitch, 10 ^ 5)>>

directionOf(pitch, yaw) == direction(Sin(pitch), Cos(pitch), Sin(yaw), Cos(yaw))

\* updateTargetFromAngles
updateTargetFromAngles(c) ==
  [c EXCEPT !.target = add(c.position, mul(directionOf(c.pitch, c.yaw), LookDistance))]

\* calculateViewMatrix: the 16 entries, in the order of the array literal.
viewMatrixOf(right, up, forward, position) ==
  <<right[1], up[1], -forward[1], 0,
    right[2], up[2], -forward[2], 0,
    right[3], up[3], -forward[3], 0,
    -dot(right, position), -dot(up, position), dot(forward, position), Milli>>

\* const up = right.cross(forward)
viewFromRight(right, forward, position) ==
  viewMatrixOf(right, cross(right, forward), forward, position)

\* const right = forward.cross(this.up).normalize()
viewFromForward(forward, up, position) ==
  viewFromRight(normalize(cross(forward, up)), forward, position)

\* const forward = this.target.sub(this.position).normalize()
calculateViewMatrix(c) ==
  viewFromForward(normalize(sub(c.target, c.position)), c.up, c.position)

\* calculateProjectionMatrix, for f = 1 / tan(fov / 2); rangeInv = 1 / (near - far).
projectionOf(f, c) ==
  <<RDivSigned(f * Milli, c.aspect), 0, 0, 0,
    0, f, 0, 0,
    0, 0, RDivSigned((c.near + c.far) * Milli, c.near - c.far), -Milli,
    0, 0, 2 * RDivSigned(c.near * c.far, c.near - c.far), 0>>

\* 1 / tan(half), in thousandths.
cot(half) == RDivSigned(Cos(half) * Milli, Sin(half))

calculateProjectionMatrix(c) == projectionOf(cot(c.fov \div 2), c)

\* updateMatrices: recompute the cached matrices if they are dirty.
updateMatrices(c) ==
  IF c.matricesDirty
  THEN [c EXCEPT !.viewMatrix = calculateViewMatrix(c),
                 !.projectionMatrix = calculateProjectionMatrix(c),
                 !.matricesDirty = FALSE]
  ELSE c

\* calculateInitialAngles: yaw and pitch back-computed from the direction to the
\* target.
anglesOf(c, to) ==
  [c EXCEPT !.yaw = Atan2(to[1], to[3]),
            !.pitch = Atan2(-to[2], ISqrt(to[1] * to[1] + to[3] * to[3]))]

calculateInitialAngles(c) == anglesOf(c, normalize(sub(c.target, c.position)))

\* new PerspectiveCamera(config)
newCamera(config) ==
  updateMatrices(calculateInitialAngles(
    [position |-> config.position, target |-> config.target, up |-> config.up,
     fov |-> config.fov, aspect |-> config.aspect, near |-> config.near,
     far |-> config.far, canvasWidth |-> 1920, canvasHeight |-> 1080,
     pitch |-> 0, yaw |-> 0, viewMatrix |-> <<>>, projectionMatrix |-> <<>>,
     matricesDirty |-> TRUE]))

\* getForward / getRight / getUpBasis: read from the cached view matrix
\* (viewMatrix[2], [6], [10] and so on, counted from 0).
getForward(c) == <<-c.viewMatrix[3], -c.viewMatrix[7], -c.viewMatrix[11]>>
getRight(c) == <<c.viewMatrix[1], c.viewMatrix[5], c.viewMatrix[9]>>
getUpBasis(c) == <<c.viewMatrix[2], c.viewMatrix[6], c.viewMatrix[10]>>

\* setFOV without the dirty mark.
setFOV_clean(c, fov) == [c EXCEPT !.fov = fov]

\* setAspect without the dirty mark.
setAspect_clean(c, aspect) == [c EXCEPT !.aspect = aspect]

setAspect(c, aspect) == [c EXCEPT !.aspect = aspect, !.matricesDirty = TRUE]
setFOV(c, fov) == [c EXCEPT !.fov = fov, !.matricesDirty = TRUE]
setCanvasDimensions(c, width, height) ==
  [c EXCEPT !.canvasWidth = width, !.canvasHeight = height]

\* moveTo without the call of updateTargetFromAngles.
moveTo_keepTarget(c, position) == [c EXCEPT !.position = position, !.matricesDirty = TRUE]

moveTo(c, position) ==
  [updateTargetFromAngles([c EXCEPT !.position = position]) EXCEPT !.matricesDirty = TRUE]

Max(a, b) == IF a >= b THEN a ELSE b
Min(a, b) == IF a <= b THEN a ELSE b

\* The angles are JavaScript numbers: a sum is rounded to the significand, to
\* nearest, ties to even.  A double carries 53 significant bits; the model's
\* numbers carry SigBits, and count in 1/10000 rad.
SigBits == 16

RECURSIVE UlpFrom(_, _)
\* The spacing of the representable numbers around n: the least power of two u,
\* from u on, with |n| / u below 2^SigBits.
UlpFrom(n, u) == IF Abs(n) \div u < 2 ^ SigBits THEN u ELSE UlpFrom(n, 2 * u)

Ulp(n) == UlpFrom(n, 1)

\* n rounded to a nearest multiple of u, a tie to the even multiple.
RoundTo(n, u) ==
  IF 2 * (n % u) < u \/ (2 * (n % u) = u /\ (n \div u) % 2 = 0)
  THEN (n \div u) * u
  ELSE (n \div u + 1) * u

Rounded(n) == RoundTo(n, Ulp(n))

\* a + b on numbers.
numberAdd(a, b) == Rounded(a + b)

\* rotateX: pitch += angle, clamped.
rotateX(c, angle) ==
  [updateTargetFromAngles(
     [c EXCEPT !.pitch = Max(-PitchLimit, Min(PitchLimit, numberAdd(c.pitch, angle)))])
   EXCEPT !.matricesDirty = TRUE]

\* rotateY: yaw += angle, not clamped.
rotateY_clamped(c, angle) ==
  [updateTargetFromAngles(
     [c EXCEPT !.yaw = Max(-Pi, Min(Pi, numberAdd(c.yaw, angle)))])
   EXCEPT !.matricesDirty = TRUE]
rotateY(c, angle) ==
  [updateTargetFromAngles([c EXCEPT !.yaw = numberAdd(c.yaw, angle)])
   EXCEPT !.matricesDirty = TRUE]

\* resetRotation without updateTargetFromAngles.
resetRotation_keepTarget(c) == [c EXCEPT !.pitch = 0, !.yaw = 0, !.matricesDirty = TRUE]

resetRotation(c) ==
  [updateTargetFromAngles([c EXCEPT !.pitch = 0, !.yaw = 0]) EXCEPT !.matricesDirty = TRUE]

\* getShaderData: updateMatrices(), then the basis read from the view matrix u holds.
shaderDataOf(u) ==
  [position |-> u.position, forward |-> getForward(u), up |-> getUpBasis(u),
   right |-> getRight(u), fov |-> u.fov, aspect |-> u.aspect,
   canvasWidth |-> u.canvasWidth, canvasHeight |-> u.canvasHeight]

getShaderData(c) == shaderDataOf(updateMatrices(c))

\* Degrees to radians (1/10000 rad): (fovDegrees * Math.PI) / 180.
radians(degrees) == RDiv(degrees * Pi, 180)

\* The camera the scene component creates in onMount, for an aspect ratio.
sceneCamera(aspect) ==
  newCamera([position |-> <<0, 3 * Milli, -8 * Milli>>, target |-> <<0, 0, 0>>,
             up |-> Up, fov |-> radians(60), aspect |-> aspect,
             near |-> 100, far |-> 1000 * Milli])

VARIABLES
  scene,    \* the scene component's state
  rt,       \* the RayTracer object's fields
  camera,   \* the camera object the scene component and the RayTracer share
  gpu,      \* the device: textures by id, the canvas surface
  obs,      \* what the last operation did (history, not program state)
  pending   \* what happened since the last render call (history)

vars == <<scene, rt, camera, gpu, obs, pending>>

\* ------------------------------------------------------------- the device

NoTexture ==
  [state |-> "none", width |-> 0, height |-> 0, texel |-> ZeroTexel, destroyCalls |-> 0]

\* Ids for the textures of the constructor, of the resize at mount, and of the
\* events after it (at most three each).
TextureIds == 1..(6 + 3 * MaxEvents)

\* The textures of the device that are live.
LiveTextures(g) == {id \in TextureIds : g.textures[id].state = "live"}

\* device.createTexture: a fresh live texture, zero-initialised.  The device
\* keeps the largest number of textures that were live at once (mostLive).
createTexture(g, w, h) ==
  [g EXCEPT !.textures[g.nextTextureId] =
              [state |-> "live", width |-> w, height |-> h, texel |-> ZeroTexel,
               destroyCalls |-> 0],
            !.nextTextureId = g.nextTextureId + 1,
            !.mostLive = Max(@, Cardinality(LiveTextures(g) \cup {g.nextTextureId}))]

\* GPUTexture.destroy: the texture and its contents are gone.  The number of
\* destroy calls a texture received is kept (it saturates at 2).
destroy(g, id) ==
  [g EXCEPT !.textures[id] =
     [@ EXCEPT !.state = "destroyed", !.texel = ZeroTexel,
               !.destroyCalls = IF @ < 2 THEN @ + 1 ELSE @]]

IsLive(g, id) == g.textures[id].state = "live"

\* A pass writes a texel through a view; a pass that uses a destroyed
\* texture fails validation at submit and writes nothing.
writeTexel(g, id, t) ==
  IF IsLive(g, id) THEN [g EXCEPT !.textures[id].texel = t] ELSE g

\* ------------------------------------------------------ the display shader

\* let shouldAccumulate = frameCount >= 5.0;
shouldAccumulate_early(frame_count) == frame_count >= AccumulateFrom - 1
shouldAccumulate_always(frame_count) == TRUE
shouldAccumulate(frame_count) == frame_count >= AccumulateFrom

\* weight = 1.0 / (frameCount + 1.0): the denominator of the weight.
weightDenominator_off(frame_count) == frame_count + 2
weightDenominator(frame_count) == frame_count + 1

\* One channel of accumulatedColor, as an exact fraction:
\* select(currentFrame, previousFrame * (1 - weight) + currentFrame * weight,
\*        shouldAccumulate), with weight = 1 / weightDenominator, for a previous
\* value that is itself a fraction num/den.
blendExact(current, previous, frame_count) ==
  IF shouldAccumulate(frame_count)
  THEN [num |-> previous.num * (weightDenominator(frame_count) - 1)
                 + current * previous.den,
        den |-> previous.den * weightDenominator(frame_count)]
  ELSE [num |-> current, den |-> 1]

\* The channel for the 8-bit level a texture holds.
blendChannel(current, previous, frame_count) ==
  blendExact(current, [num |-> previous, den |-> 1], frame_count)

\* fragmentMain: both channels of the blended colour.
fragmentMain(currentFrame, previousFrame, frame_count) ==
  [c |-> blendChannel(currentFrame.c, previousFrame.c, frame_count),
   a |-> blendChannel(currentFrame.a, previousFrame.a, frame_count)]

\* Storing a float in an 8-bit unorm channel rounds it to a nearest level; an
\* exact tie may go either way (the float arithmetic decides).
unormStore(q) ==
  LET below == q.num \div q.den
  IN  {l \in {below, below + 1} : l \in Levels /\ 2 * Abs(l * q.den - q.num) <= q.den}

\* ------------------------------------------------------------ RayTracer

\* updateUniformsData / updateDisplayFrameCount: the display uniform block.
displayUniforms(settings, frameCount) ==
  [render_width |-> settings.renderWidth, render_height |-> settings.renderHeight,
   display_width |-> settings.displayWidth, display_height |-> settings.displayHeight,
   frame_count |-> frameCount]

updateUniformsData(r) ==
  [r EXCEPT !.uniformsBuffer = displayUniforms(r.renderSettings, 0)]

updateDisplayFrameCount(r, frameCount) ==
  [r EXCEPT !.uniformsBuffer = displayUniforms(r.renderSettings, frameCount)]

updateMaxBouncesData(r) == [r EXCEPT !.maxBouncesBuffer = r.renderSettings.maxBounces]

updateRaysPerPixelData(r) == [r EXCEPT !.raysPerPixelBuffer = r.renderSettings.raysPerPixel]

updateFrameCountData(r, frameCount) == [r EXCEPT !.frameCountBuffer = frameCount]

\* createComputeBindGroup: binding 1 is the view of the render texture.
createComputeBindGroup(r) ==
  [r EXCEPT !.computeBindGroup = [outputTexture |-> r.renderTextureView]]

\* createDisplayBindGroup: bindings 0, 2, 3.
createDisplayBindGroup(r) ==
  [r EXCEPT !.displayBindGroup =
     [inputTexture |-> r.renderTextureView,
      previousFrameTexture |-> r.accumulatedFrameTextureView,
      lastFrameBuffer |-> r.lastFrameBufferView]]

\* resetAccumulation: a render pass that clears the accumulated frame texture.
resetAccumulation(r, g) == writeTexel(g, r.accumulatedFrameTextureView, ClearValue)

\* resetTemporalAccumulation: resetAccumulation, then updateDisplayFrameCount(0).
resetTemporalAccumulation(r, g) ==
  [rt |-> updateDisplayFrameCount(r, 0), gpu |-> resetAccumulation(r, g)]

\* updateCameraData: the camera uniform block, from camera.getShaderData() and
\* the render size.
cameraUniforms(r, cameraData) ==
  [r EXCEPT !.cameraBuffer =
     [position |-> cameraData.position, forward |-> cameraData.forward,
      up |-> cameraData.up, right |-> cameraData.right,
      fov |-> cameraData.fov, aspect |-> cameraData.aspect,
      render_width |-> r.renderSettings.renderWidth,
      render_height |-> r.renderSettings.renderHeight]]

updateCameraData(r, c) == cameraUniforms(r, getShaderData(c))

\* The constructor: the render texture, lastFrameBuffer and the accumulated frame
\* texture, in that order.
newGpu(renderSettings) ==
  LET g0 == [textures |-> [i \in TextureIds |-> NoTexture], nextTextureId |-> 1,
             surface |-> ZeroTexel, mostLive |-> 0]
      g1 == createTexture(g0, renderSettings.renderWidth, renderSettings.renderHeight)
      g2 == createTexture(g1, renderSettings.displayWidth, renderSettings.displayHeight)
  IN  createTexture(g2, renderSettings.displayWidth, renderSettings.displayHeight)

\* The constructor: the fields, the bind groups, updateCameraData,
\* updateUniformsData and the copy dimensions.
newRayTracer(c, renderSettings) ==
  LET r0 == [renderSettings |-> renderSettings,
             renderTexture |-> 1, renderTextureView |-> 1,
             lastFrameBuffer |-> 2, lastFrameBufferView |-> 2,
             accumulatedFrameTexture |-> 3, accumulatedFrameTextureView |-> 3,
             computeBindGroup |-> [outputTexture |-> 0],
             displayBindGroup |-> [inputTexture |-> 0, previousFrameTexture |-> 0,
                                   lastFrameBuffer |-> 0],
             cameraBuffer |-> <<>>,
             uniformsBuffer |-> <<>>,
             maxBouncesBuffer |-> 0, raysPerPixelBuffer |-> 0, frameCountBuffer |-> 0,
             copyDimensionsBuffer |-> <<renderSettings.displayWidth,
                                        renderSettings.displayHeight>>]
  IN  updateUniformsData(
        updateCameraData(createDisplayBindGroup(createComputeBindGroup(r0)), c))

\* The compute pass: computeMain stores one sample per pixel, alpha 1.0, through
\* binding 1 of the compute bind group.
computePass(r, g, sample) ==
  writeTexel(g, r.computeBindGroup.outputTexture, [c |-> sample, a |-> MaxLevel])

\* What the display pass samples: the low-res target (binding 0) and the
\* accumulated frame (binding 2), through the views render() binds afresh.
currentFrameOf(r, g) == g.textures[r.renderTextureView].texel
previousFrameOf(r, g) == g.textures[r.accumulatedFrameTextureView].texel

\* The display pass: the blended colour goes to the canvas (the return value) and
\* to lastFrameBuffer (textureStore); out is the stored 8-bit value.
displayPass(r, g, out) ==
  [writeTexel(g, r.lastFrameBufferView, out) EXCEPT !.surface = out]

\* A copy pass that draws the low-res target instead of the snapshot.
copyPass_current(r, g) ==
  writeTexel(g, r.accumulatedFrameTextureView, g.textures[r.renderTextureView].texel)

\* The copy pass: lastFrameBuffer is drawn into the accumulated frame texture.
copyPass(r, g) ==
  writeTexel(g, r.accumulatedFrameTextureView, g.textures[r.lastFrameBufferView].texel)

\* The uniform refresh without its updateCameraData call.
renderUniforms_stale(r, c, frameCount) ==
  updateDisplayFrameCount(
    updateFrameCountData(updateRaysPerPixelData(updateMaxBouncesData(r)), frameCount),
    frameCount)

\* render(frameCount), lines 450-454: the uniform refresh.
renderUniforms(r, c, frameCount) ==
  updateDisplayFrameCount(
    updateFrameCountData(
      updateRaysPerPixelData(updateMaxBouncesData(updateCameraData(r, c))), frameCount),
    frameCount)

\* The values the blended colour may be stored as.
displayOutputs(r, g) ==
  LET q == fragmentMain(currentFrameOf(r, g), previousFrameOf(r, g),
                        r.uniformsBuffer.frame_count)
  IN  {[c |-> oc, a |-> oa] : oc \in unormStore(q.c), oa \in unormStore(q.a)}

\* updateRenderSettings: do the render / display dimensions differ from the
\* allocated targets'?
renderDimensionsChanged_always(settings, r, g) == TRUE
renderDimensionsChanged(settings, r, g) ==
  \/ settings.renderWidth # g.textures[r.renderTexture].width
  \/ settings.renderHeight # g.textures[r.renderTexture].height

displayDimensionsChanged_width(settings, r, g) ==
  settings.displayWidth # g.textures[r.lastFrameBuffer].width
displayDimensionsChanged(settings, r, g) ==
  \/ settings.displayWidth # g.textures[r.lastFrameBuffer].width
  \/ settings.displayHeight # g.textures[r.lastFrameBuffer].height

\* The render branch without its bind groups (lines 599-601).
recreateRenderTexture_staleBindGroup(settings, s) ==
  IF renderDimensionsChanged(settings, s.rt, s.gpu)
  THEN LET g1 == destroy(s.gpu, s.rt.renderTexture)
           id == g1.nextTextureId
           g2 == createTexture(g1, settings.renderWidth, settings.renderHeight)
           r1 == [s.rt EXCEPT !.renderTexture = id, !.renderTextureView = id]
       IN  [rt |-> r1, gpu |-> g2]
  ELSE s

\* The render branch creating the new texture before it destroys the old one.
recreateRenderTexture_createFirst(settings, s) ==
  IF renderDimensionsChanged(settings, s.rt, s.gpu)
  THEN LET id == s.gpu.nextTextureId
           g1 == createTexture(s.gpu, settings.renderWidth, settings.renderHeight)
           g2 == destroy(g1, s.rt.renderTexture)
           r1 == [s.rt EXCEPT !.renderTexture = id, !.renderTextureView = id]
       IN  [rt |-> createDisplayBindGroup(createComputeBindGroup(r1)), gpu |-> g2]
  ELSE s

\* updateRenderSettings, lines 587-602: the low-res target.
recreateRenderTexture(settings, s) ==
  IF renderDimensionsChanged(settings, s.rt, s.gpu)
  THEN LET g1 == destroy(s.gpu, s.rt.renderTexture)
           id == g1.nextTextureId
           g2 == createTexture(g1, settings.renderWidth, settings.renderHeight)
           r1 == [s.rt EXCEPT !.renderTexture = id, !.renderTextureView = id]
       IN  [rt |-> createDisplayBindGroup(createComputeBindGroup(r1)), gpu |-> g2]
  ELSE s

\* The display branch without the write of the copy dimensions (lines 630-635).
recreateDisplayTextures_staleCopy(settings, s) ==
  IF displayDimensionsChanged(settings, s.rt, s.gpu)
  THEN LET g1 == destroy(destroy(s.gpu, s.rt.lastFrameBuffer), s.rt.accumulatedFrameTexture)
           last == g1.nextTextureId
           g2 == createTexture(g1, settings.displayWidth, settings.displayHeight)
           acc == g2.nextTextureId
           g3 == createTexture(g2, settings.displayWidth, settings.displayHeight)
           r1 == [s.rt EXCEPT !.lastFrameBuffer = last, !.lastFrameBufferView = last,
                              !.accumulatedFrameTexture = acc,
                              !.accumulatedFrameTextureView = acc]
       IN  [rt |-> createDisplayBindGroup(r1), gpu |-> g3]
  ELSE s

\* updateRenderSettings, lines 604-636: the snapshot and accumulation targets.
recreateDisplayTextures(settings, s) ==
  IF displayDimensionsChanged(settings, s.rt, s.gpu)
  THEN LET g1 == destroy(destroy(s.gpu, s.rt.lastFrameBuffer), s.rt.accumulatedFrameTexture)
           last == g1.nextTextureId
           g2 == createTexture(g1, settings.displayWidth, settings.displayHeight)
           acc == g2.nextTextureId
           g3 == createTexture(g2, settings.displayWidth, settings.displayHeight)
           r1 == [s.rt EXCEPT !.lastFrameBuffer = last, !.lastFrameBufferView = last,
                              !.accumulatedFrameTexture = acc,
                              !.accumulatedFrameTextureView = acc]
           r2 == [createDisplayBindGroup(r1) EXCEPT !.copyDimensionsBuffer =
                    <<settings.displayWidth, settings.displayHeight>>]
       IN  [rt |-> r2, gpu |-> g3]
  ELSE s

\* updateCamera(camera): updateCameraData, then resetTemporalAccumulation.
updateCamera(r, c, g) == resetTemporalAccumulation(updateCameraData(r, c), g)

\* updateRenderSettings(settings), whole.
refreshUniforms(s) == [rt |-> updateUniformsData(s.rt), gpu |-> s.gpu]

updateRenderSettings(settings, r, g) ==
  refreshUniforms(
    recreateDisplayTextures(settings,
      recreateRenderTexture(settings,
        resetTemporalAccumulation([r EXCEPT !.renderSettings = settings], g))))

\* Textures a call with these settings would create.
texturesNeeded(settings, r, g) ==
  (IF renderDimensionsChanged(settings, r, g) THEN 1 ELSE 0)
  + (IF displayDimensionsChanged(settings, r, g) THEN 2 ELSE 0)

\* ------------------------------------------------------ the scene component

\* The keys the component reads (e.key.toLowerCase()).
Keys == {"w", "s", "a", "d", "q", "e", "r",
         "arrowup", "arrowdown", "arrowleft", "arrowright", "shift"}

\* The component's state as declared: input state, the temporal accumulation
\* counter, the slider values (renderScale in hundredths), the dimensions.
declaredScene ==
  [keys |-> {}, mouseX |-> 0, mouseY |-> 0, isMouseDown |-> FALSE,
   temporalFrameCount |-> 0, cameraMoved |-> FALSE,
   fovDegrees |-> 60, renderScale |-> 50,
   renderWidth |-> 0, renderHeight |-> 0, displayWidth |-> 0, displayHeight |-> 0,
   maxBounces |-> 10, raysPerPixel |-> 20]

\* The canvas element carries no width or height attribute: 300 x 150.
defaultCanvas == [width |-> 300, height |-> 150]

\* The settings object the handlers build from the component's state.
renderSettingsOf(s) ==
  [renderWidth |-> s.renderWidth, renderHeight |-> s.renderHeight,
   displayWidth |-> s.displayWidth, displayHeight |-> s.displayHeight,
   maxBounces |-> s.maxBounces, raysPerPixel |-> s.raysPerPixel]

\* The component's resetTemporalAccumulation: the RayTracer's, then
\* temporalFrameCount = 0.  w is the component with the objects it holds.
scene_resetTemporalAccumulation_keep(w) ==
  [w EXCEPT !.rt = updateDisplayFrameCount(w.rt, 0), !.gpu = resetAccumulation(w.rt, w.gpu)]
scene_resetTemporalAccumulation(w) ==
  [w EXCEPT !.rt = updateDisplayFrameCount(w.rt, 0), !.gpu = resetAccumulation(w.rt, w.gpu),
            !.scene.temporalFrameCount = 0]

\* updateFOV, after bind:value stored the slider's value in fovDegrees.
updateFOV(w) ==
  scene_resetTemporalAccumulation(
    [w EXCEPT !.camera = setFOV(w.camera, radians(w.scene.fovDegrees))])

\* The render size for a display size and a scale: targetPixels, then
\* renderHeight = floor(sqrt(targetPixels / aspectRatio)) and
\* renderWidth = floor(renderHeight * aspectRatio).
withRenderHeight(s, height) ==
  [s EXCEPT !.renderHeight = height,
            !.renderWidth = (height * s.displayWidth) \div s.displayHeight]

targetPixels(s) == (s.displayWidth * s.displayHeight * s.renderScale) \div 100

scaledDimensions(s) ==
  withRenderHeight(s, ISqrt((targetPixels(s) * s.displayHeight) \div s.displayWidth))

\* raytracer.updateRenderSettings with the component's settings, then the
\* component's resetTemporalAccumulation.
holding(w, u) == [w EXCEPT !.rt = u.rt, !.gpu = u.gpu]

applySettings(w) ==
  scene_resetTemporalAccumulation(
    holding(w, updateRenderSettings(renderSettingsOf(w.scene), w.rt, w.gpu)))

updateRenderScale(w) == applySettings([w EXCEPT !.scene = scaledDimensions(w.scene)])
updateMaxBounces(w) == applySettings(w)
updateRaysPerPixel(w) == applySettings(w)

\* const moveSpeed = 0.05 (thousandths), rotateSpeed = 0.005 (1/10000 rad),
\* shiftMultiplier = 4.
moveSpeed == 50
rotateSpeed == 50
shiftMultiplier == 4

speedOf(keys, base) == IF "shift" \in keys THEN base * shiftMultiplier ELSE base

\* One "if (keys.has(key))" block of updateCamera that sets cameraMoved.
whenHeld(w, key, c) ==
  IF key \in w.scene.keys THEN [w EXCEPT !.camera = c, !.scene.cameraMoved = TRUE] ELSE w

\* The steps a held key makes.
moveStep(w) == speedOf(w.scene.keys, moveSpeed)
turnStep(w) == speedOf(w.scene.keys, rotateSpeed)

\* updateCamera, lines 575-633: one operator per key block.
heldW(w) ==
  whenHeld(w, "w", moveTo(w.camera, add(w.camera.position,
                                        mul(getForward(w.camera), moveStep(w)))))
heldS(w) ==
  whenHeld(w, "s", moveTo(w.camera, sub(w.camera.position,
                                        mul(getForward(w.camera), moveStep(w)))))
heldA(w) ==
  whenHeld(w, "a", moveTo(w.camera, sub(w.camera.position,
                                        mul(getRight(w.camera), moveStep(w)))))
heldD(w) ==
  whenHeld(w, "d", moveTo(w.camera, add(w.camera.position,
                                        mul(getRight(w.camera), moveStep(w)))))
heldQ(w) == whenHeld(w, "q", moveTo(w.camera, add(w.camera.position, mul(Up, moveStep(w)))))
heldE(w) == whenHeld(w, "e", moveTo(w.camera, sub(w.camera.position, mul(Up, moveStep(w)))))
heldR(w) ==
  IF "r" \in w.scene.keys THEN [w EXCEPT !.camera = resetRotation(w.camera)] ELSE w
heldArrowUp(w) == whenHeld(w, "arrowup", rotateX(w.camera, -turnStep(w)))
heldArrowDown(w) == whenHeld(w, "arrowdown", rotateX(w.camera, turnStep(w)))
heldArrowLeft(w) == whenHeld(w, "arrowleft", rotateY(w.camera, turnStep(w)))
heldArrowRight(w) == whenHeld(w, "arrowright", rotateY(w.camera, -turnStep(w)))

\* updateCamera, lines 644-651: the mouse drag.
mouseDrag(w) ==
  IF w.scene.isMouseDown /\ (w.scene.mouseX # 0 \/ w.scene.mouseY # 0)
  THEN [w EXCEPT
          !.camera = rotateX(rotateY(w.camera, RDiv(w.scene.mouseX * rotateSpeed, 2)),
                             RDiv(-w.scene.mouseY * rotateSpeed, 2)),
          !.scene.mouseX = 0, !.scene.mouseY = 0, !.scene.cameraMoved = TRUE]
  ELSE w

\* updateCamera, lines 572-651: the key blocks in the order of the code, then the
\* mouse drag.
handleInput(w) ==
  mouseDrag(heldArrowRight(heldArrowLeft(heldArrowDown(heldArrowUp(
    heldR(heldE(heldQ(heldD(heldA(heldS(heldW(w))))))))))))

\* updateCamera, lines 653-657.
resetIfMoved(w) ==
  IF w.scene.cameraMoved
  THEN [scene_resetTemporalAccumulation(w) EXCEPT !.scene.cameraMoved = FALSE]
  ELSE w

\* updateCamera (the component's), whole.
scene_updateCamera(w) == resetIfMoved(handleInput(w))

\* The input handlers.
handleKeyDown(s, key) == [s EXCEPT !.keys = @ \cup {key}]
handleKeyUp(s, key) == [s EXCEPT !.keys = @ \ {key}]
handleMouseMove(s, movementX, movementY) ==
  IF s.isMouseDown THEN [s EXCEPT !.mouseX = movementX, !.mouseY = movementY] ELSE s
handleMouseDown(s) == [s EXCEPT !.isMouseDown = TRUE]
handleMouseUp(s) == [s EXCEPT !.isMouseDown = FALSE]

\* handleResize, for the window's inner size: the camera and the dimensions.
resized(w, innerWidth, innerHeight) ==
  [w EXCEPT
     !.camera = setCanvasDimensions(
                  setAspect(w.camera, RDiv(innerWidth * Milli, innerHeight)),
                  innerWidth, innerHeight),
     !.scene = scaledDimensions([w.scene EXCEPT !.displayWidth = innerWidth,
                                                !.displayHeight = innerHeight])]

\* raytracer.updateRenderSettings(renderSettings)
settingsUpdated(w) ==
  holding(w, updateRenderSettings(renderSettingsOf(w.scene), w.rt, w.gpu))

\* raytracer.updateCamera(camera)
cameraUpdated(w) ==
  [holding(w, updateCamera(w.rt, w.camera, w.gpu)) EXCEPT
     !.camera = updateMatrices(w.camera)]

handleResize(w, innerWidth, innerHeight) ==
  scene_resetTemporalAccumulation(
    cameraUpdated(settingsUpdated(resized(w, innerWidth, innerHeight))))

\* onMount, lines 105-113: the dimensions from the canvas.
canvasScene ==
  [declaredScene EXCEPT
     !.displayWidth = defaultCanvas.width,
     !.displayHeight = defaultCanvas.height,
     !.renderWidth = (defaultCanvas.width * declaredScene.renderScale) \div 100,
     !.renderHeight = (defaultCanvas.height * declaredScene.renderScale) \div 100]

\* onMount up to the construction of the camera and the RayTracer.
constructed(s, c) ==
  [scene |-> s, camera |-> c, rt |-> newRayTracer(c, renderSettingsOf(s)),
   gpu |-> newGpu(renderSettingsOf(s))]

mountedScene ==
  constructed(canvasScene,
              sceneCamera(RDiv(defaultCanvas.width * Milli, defaultCanvas.height)))

\* onMount, whole: setupResizeHandler calls handleResize at once.
onMount(innerWidth, innerHeight) == handleResize(mountedScene, innerWidth, innerHeight)

\* raytracer.render(frameCount) up to the display pass: the uniforms (r) and the
\* device after the compute pass; then the display and the copy pass.
rendered(w, r, g, out) ==
  [w EXCEPT !.camera = updateMatrices(w.camera), !.rt = r,
            !.gpu = copyPass(r, displayPass(r, g, out))]

\* temporalFrameCount++
counted(w) == [w EXCEPT !.scene.temporalFrameCount = @ + 1]

\* ------------------------------------------------------------- history

\* obs: the last operation; for a render call, the accumulated texel its display
\* pass read, whether a reset or a settings update came since the render call
\* before it, and what that earlier call committed (if nothing cleared it since);
\* for a settings update, whether its argument equalled the settings in force, and
\* whether its render and its display dimensions were those of the allocated targets.
NoObservation ==
  [op |-> "constructor", previous |-> ZeroTexel,
   afterReset |-> FALSE, afterSettings |-> FALSE, committed |-> ZeroTexel,
   hadCommit |-> FALSE, repeat |-> FALSE, sameRender |-> FALSE, sameDisplay |-> FALSE]

\* pending: resets and settings updates since the last render call, the texel that
\* call committed, and the blended frames rendered on the current history.
NothingPending == [reset |-> FALSE, settings |-> FALSE, commit |-> FALSE,
                   committed |-> ZeroTexel, blends |-> 0]

Observe(op) == [NoObservation EXCEPT !.op = op]

\* ------------------------------------------------------------- actions

\* The camera and the orchestrator as constructed.
InitialAspect == RDiv(InitialSettings.displayWidth * Milli, InitialSettings.displayHeight)

Init ==
  \E c \in {sceneCamera(InitialAspect)} :
    /\ scene = declaredScene
    /\ camera = c
    /\ rt = newRayTracer(c, InitialSettings)
    /\ gpu = newGpu(InitialSettings)
    /\ obs = NoObservation
    /\ pending = NothingPending

\* raytracer.render(frameCount): uniform refresh, compute pass, display pass,
\* copy pass.  sample is what the scene tracer produces for the pixel.
RenderCall(frameCount, sample) ==
  /\ shouldAccumulate(frameCount) => pending.blends < MaxBlends
  /\ \E r1 \in {renderUniforms(rt, camera, frameCount)} :
       \E g1 \in {computePass(r1, gpu, sample)} :
         \E out \in displayOutputs(r1, g1) :
           /\ rt' = r1
           /\ camera' = updateMatrices(camera)
           /\ scene' = scene
           /\ gpu' = copyPass(r1, displayPass(r1, g1, out))
           /\ obs' = [op |-> "render",
                      previous |-> previousFrameOf(r1, g1),
                      afterReset |-> pending.reset,
                      afterSettings |-> pending.settings,
                      committed |-> pending.committed,
                      hadCommit |-> pending.commit,
                      repeat |-> FALSE, sameRender |-> FALSE, sameDisplay |-> FALSE]
           /\ pending' = [reset |-> FALSE, settings |-> FALSE, commit |-> TRUE,
                          committed |-> out,
                          blends |-> IF shouldAccumulate(frameCount)
                                     THEN pending.blends + 1 ELSE 0]

Render == \E frameCount \in FrameArgs, sample \in Samples : RenderCall(frameCount, sample)

\* raytracer.resetAccumulation()
ResetAccumulation ==
  /\ gpu' = resetAccumulation(rt, gpu)
  /\ UNCHANGED <<scene, rt, camera>>
  /\ obs' = Observe("resetAccumulation")
  /\ pending' = [pending EXCEPT !.reset = TRUE, !.commit = FALSE,
                               !.committed = ZeroTexel, !.blends = 0]

\* raytracer.resetTemporalAccumulation()
ResetTemporalAccumulation ==
  \E s \in {resetTemporalAccumulation(rt, gpu)} :
    /\ rt' = s.rt
    /\ gpu' = s.gpu
    /\ UNCHANGED <<scene, camera>>
    /\ obs' = Observe("resetTemporalAccumulation")
    /\ pending' = [pending EXCEPT !.reset = TRUE, !.commit = FALSE,
                                  !.committed = ZeroTexel, !.blends = 0]

\* raytracer.updateRenderSettings(settings)
UpdateRenderSettingsCall(settings) ==
  /\ gpu.nextTextureId + texturesNeeded(settings, rt, gpu) <= MaxTextures + 1
  /\ \E s \in {updateRenderSettings(settings, rt, gpu)} :
       /\ rt' = s.rt
       /\ gpu' = s.gpu
  /\ UNCHANGED <<scene, camera>>
  /\ obs' = [Observe("updateRenderSettings") EXCEPT
                !.repeat = (settings = rt.renderSettings),
                !.sameRender =
                   /\ settings.renderWidth = gpu.textures[rt.renderTexture].width
                   /\ settings.renderHeight = gpu.textures[rt.renderTexture].height,
                !.sameDisplay =
                   /\ settings.displayWidth = gpu.textures[rt.lastFrameBuffer].width
                   /\ settings.displayHeight = gpu.textures[rt.lastFrameBuffer].height]
  /\ pending' = [reset |-> FALSE, settings |-> TRUE, commit |-> FALSE,
                 committed |-> ZeroTexel, blends |-> 0]

UpdateRenderSettings == \E settings \in RenderSettings : UpdateRenderSettingsCall(settings)

\* raytracer.updateCamera(camera), with the camera object it already holds.
UpdateCamera ==
  \E s \in {updateCamera(rt, camera, gpu)} :
    /\ rt' = s.rt
    /\ gpu' = s.gpu
    /\ camera' = updateMatrices(camera)
    /\ scene' = scene
    /\ obs' = Observe("updateCamera")
    /\ pending' = [pending EXCEPT !.reset = TRUE, !.commit = FALSE,
                                  !.committed = ZeroTexel, !.blends = 0]

Next ==
  \/ Render
  \/ ResetAccumulation
  \/ ResetTemporalAccumulation
  \/ UpdateRenderSettings
  \/ UpdateCamera

Spec == Init /\ [][Next]_vars

\* ------------------------------------------- the scene component's behaviour

\* Inputs: window sizes, slider values, mouse movements.
Windows == {<<400, 200>>, <<200, 200>>}
FovValues == {60, 90}
ScaleValues == {50, 100}
BounceValues == {10, 5}
RayValues == {20, 8}
Movements == {<<0, 0>>, <<4, -2>>}

\* The component with the objects it holds.
World == [scene |-> scene, camera |-> camera, rt |-> rt, gpu |-> gpu]

\* History of the scene component.  obs, for a frame: the frame index passed to
\* render, the one passed to the render call before it (-1: none), whether the
\* camera's position, pitch, yaw or fov or the render settings changed since that
\* call, how often the component invalidated the accumulation since, and the
\* accumulated texel the display pass read.
SceneObservation ==
  [op |-> "mounted", frameArg |-> -1, previousFrameArg |-> -1, changed |-> FALSE,
   invalidations |-> 0, previous |-> ZeroTexel]

\* What the input layer may change of the camera and the settings.
Changed(w1, w2) ==
  \/ w1.camera.position # w2.camera.position
  \/ w1.camera.pitch # w2.camera.pitch
  \/ w1.camera.yaw # w2.camera.yaw
  \/ w1.camera.fov # w2.camera.fov
  \/ w1.rt.renderSettings # w2.rt.renderSettings

SceneInit ==
  \E window \in Windows :
    \E w \in {onMount(window[1], window[2])} :
      /\ scene = w.scene
      /\ camera = w.camera
      /\ rt = w.rt
      /\ gpu = w.gpu
      /\ obs = SceneObservation
      /\ pending = [changed |-> FALSE, invalidations |-> 1, lastFrameArg |-> -1,
                    events |-> 0, ticks |-> 0]

\* The component is left as w2.
Becomes(w2) ==
  /\ scene' = w2.scene
  /\ camera' = w2.camera
  /\ rt' = w2.rt
  /\ gpu' = w2.gpu

\* An event handler ran and left the component as w2, having called the
\* component's resetTemporalAccumulation the given number of times.
Handled(w2, invalidations) ==
  /\ pending.events < MaxEvents
  /\ Becomes(w2)
  /\ obs' = [SceneObservation EXCEPT !.op = "input"]
  /\ pending' = [pending EXCEPT !.changed = @ \/ Changed(World, w2),
                                !.invalidations = @ + invalidations,
                                !.events = @ + 1]

KeyDown == \E key \in Keys : Handled([World EXCEPT !.scene = handleKeyDown(scene, key)], 0)

KeyUp == \E key \in scene.keys : Handled([World EXCEPT !.scene = handleKeyUp(scene, key)], 0)

MouseDown == Handled([World EXCEPT !.scene = handleMouseDown(scene)], 0)

MouseUp == Handled([World EXCEPT !.scene = handleMouseUp(scene)], 0)

MouseMove ==
  \E m \in Movements : Handled([World EXCEPT !.scene = handleMouseMove(scene, m[1], m[2])], 0)

UpdateFOV ==
  \E v \in FovValues : Handled(updateFOV([World EXCEPT !.scene.fovDegrees = v]), 1)

UpdateRenderScale ==
  \E v \in ScaleValues : Handled(updateRenderScale([World EXCEPT !.scene.renderScale = v]), 1)

UpdateMaxBounces ==
  \E v \in BounceValues : Handled(updateMaxBounces([World EXCEPT !.scene.maxBounces = v]), 1)

UpdateRaysPerPixel ==
  \E v \in RayValues : Handled(updateRaysPerPixel([World EXCEPT !.scene.raysPerPixel = v]), 1)

HandleResize == \E window \in Windows : Handled(handleResize(World, window[1], window[2]), 1)

\* One frame of the render loop, lines 456-458: updateCamera() leaves the
\* component as w1; raytracer.render(temporalFrameCount) shows a stored value out
\* of those the blend may round to; temporalFrameCount++.
FrameFrom(w1, sample) ==
  \E r1 \in {renderUniforms(w1.rt, w1.camera, w1.scene.temporalFrameCount)} :
    \E g1 \in {computePass(r1, w1.gpu, sample)} :
      \E out \in displayOutputs(r1, g1) :
        Becomes(counted(rendered(w1, r1, g1, out)))

\* A frame, and what it did: moved tells whether updateCamera invalidated.
TickFrom(moved, w1) ==
  /\ \E sample \in Samples : FrameFrom(w1, sample)
  /\ obs' = [op |-> "tick",
             frameArg |-> w1.scene.temporalFrameCount,
             previousFrameArg |-> pending.lastFrameArg,
             changed |-> pending.changed \/ Changed(World, w1),
             invalidations |-> pending.invalidations + (IF moved THEN 1 ELSE 0),
             previous |-> previousFrameOf(w1.rt, w1.gpu)]
  /\ pending' = [pending EXCEPT !.changed = FALSE, !.invalidations = 0,
                                !.lastFrameArg = w1.scene.temporalFrameCount,
                                !.ticks = @ + 1]

Tick ==
  /\ pending.ticks < MaxTicks
  /\ \E w0 \in {handleInput(World)} : TickFrom(w0.scene.cameraMoved, resetIfMoved(w0))

SceneNext ==
  \/ KeyDown
  \/ KeyUp
  \/ MouseDown
  \/ MouseUp
  \/ MouseMove
  \/ UpdateFOV
  \/ UpdateRenderScale
  \/ UpdateMaxBounces
  \/ UpdateRaysPerPixel
  \/ HandleResize
  \/ Tick

SceneSpec == SceneInit /\ [][SceneNext]_vars

\* ------------------------------------------- the render loop, camera at rest

\* Frame indices rendered for the running mean.
MaxMeanFrame == 7

RECURSIVE GCD(_, _)
GCD(a, b) == IF b = 0 THEN a ELSE GCD(b, a % b)

\* A fraction in lowest terms.
Lowest(q, g) == [num |-> q.num \div g, den |-> q.den \div g]
Reduced(q) == Lowest(q, GCD(q.den, q.num))

\* History of the loop at rest: the samples of the frames so far (s_0 first), and
\* what the blend of the display shader yields on them when nothing is rounded.
MeanInit ==
  \E window \in Windows :
    \E w \in {onMount(window[1], window[2])} :
      /\ scene = w.scene
      /\ camera = w.camera
      /\ rt = w.rt
      /\ gpu = w.gpu
      /\ obs = [op |-> "mounted"]
      /\ pending = [samples |-> <<>>, unrounded |-> [num |-> 0, den |-> 1]]

MeanFrame(w1, sample) ==
  /\ FrameFrom(w1, sample)
  /\ obs' = [op |-> "tick"]
  /\ pending' = [samples |-> Append(pending.samples, sample),
                 unrounded |-> Reduced(blendExact(sample, pending.unrounded,
                                                  w1.scene.temporalFrameCount))]

MeanTick ==
  /\ scene.temporalFrameCount <= MaxMeanFrame
  /\ \E sample \in Samples : MeanFrame(scene_updateCamera(World), sample)

MeanSpec == MeanInit /\ [][MeanTick]_vars

\* Frames of a constant sample after which the output is looked at, frames of
\* free samples before them, and the last frame index rendered.
ConvergedAfter == 200
MaxHistory == 6
MaxConvergeFrame == 208

\* No constant phase yet: no level.
NoConstant == MaxLevel + 1

\* History of the loop at rest under a tracer whose samples become constant:
\* the constant and the frame index from which every sample equals it.
ConvergeInit ==
  \E window \in Windows :
    \E w \in {onMount(window[1], window[2])} :
      /\ scene = w.scene
      /\ camera = w.camera
      /\ rt = w.rt
      /\ gpu = w.gpu
      /\ obs = [op |-> "mounted"]
      /\ pending = [constant |-> NoConstant, since |-> 0]

\* A frame of the free phase, which may be the first of the constant phase.
FreeTick ==
  /\ pending.constant = NoConstant
  /\ \E sample \in Samples, settle \in BOOLEAN :
       /\ settle \/ scene.temporalFrameCount < MaxHistory
       /\ FrameFrom(scene_updateCamera(World), sample)
       /\ pending' = IF settle
                     THEN [constant |-> sample, since |-> scene.temporalFrameCount]
                     ELSE pending
  /\ obs' = [op |-> "tick"]

\* A frame of the constant phase.
ConstantTick ==
  /\ pending.constant # NoConstant
  /\ scene.temporalFrameCount <= MaxConvergeFrame
  /\ FrameFrom(scene_updateCamera(World), pending.constant)
  /\ obs' = [op |-> "tick"]
  /\ pending' = pending

ConvergeNext ==
  \/ FreeTick
  \/ ConstantTick

ConvergeSpec == ConvergeInit /\ [][ConvergeNext]_vars

\* ------------------------------------------- render(frameCount), step by step

\* Render calls made, statement by statement.
MaxCalls == 3

\* The statements of render() that enqueue GPU work, in the order of the code:
\* the five writeBuffer calls, the compute pass and the display pass encoded in
\* commandEncoder, its submit, and the copy pass with its own submit.
renderSteps_displayFirst == <<"uniforms", "display", "compute", "submit", "copy">>
renderSteps == <<"uniforms", "compute", "display", "submit", "copy">>

\* What the device does for one command of a submitted encoder.
executed(command, r, g, sample, out) ==
  CASE command = "compute" -> computePass(r, g, sample)
    [] command = "display" -> displayPass(r, g, out)
    [] command = "copy" -> copyPass(r, g)

\* pending: the call in progress (its arguments, the statements done, the passes
\* encoded and not yet submitted); obs: the work the call has enqueued so far.
PassInit ==
  \E c \in {sceneCamera(InitialAspect)} :
    /\ scene = declaredScene
    /\ camera = c
    /\ rt = newRayTracer(c, InitialSettings)
    /\ gpu = newGpu(InitialSettings)
    /\ obs = [queue |-> <<>>]
    /\ pending = [inCall |-> FALSE, done |-> 0, frameCount |-> 0, sample |-> 0,
                  encoder |-> <<>>, calls |-> 0]

\* render(frameCount) is entered.
EnterRender ==
  /\ ~pending.inCall
  /\ pending.calls < MaxCalls
  /\ \E frameCount \in FrameArgs, sample \in Samples :
       pending' = [inCall |-> TRUE, done |-> 0, frameCount |-> frameCount,
                   sample |-> sample, encoder |-> <<>>, calls |-> pending.calls + 1]
  /\ obs' = [queue |-> <<>>]
  /\ UNCHANGED <<scene, rt, camera, gpu>>

\* The statement the call executes next.
AtStep(step) ==
  /\ pending.inCall
  /\ renderSteps[pending.done + 1] = step

StepDone(p) ==
  IF p.done + 1 = Len(renderSteps)
  THEN [p EXCEPT !.inCall = FALSE, !.done = 0]
  ELSE [p EXCEPT !.done = @ + 1]

\* Lines 450-454: queue.writeBuffer for each store.
WriteUniforms ==
  /\ AtStep("uniforms")
  /\ rt' = renderUniforms(rt, camera, pending.frameCount)
  /\ camera' = updateMatrices(camera)
  /\ obs' = [queue |-> Append(obs.queue, "uniforms")]
  /\ pending' = StepDone(pending)
  /\ UNCHANGED <<scene, gpu>>

\* Lines 459-470: the compute pass is encoded.
EncodeCompute ==
  /\ AtStep("compute")
  /\ pending' = StepDone([pending EXCEPT !.encoder = Append(@, "compute")])
  /\ UNCHANGED <<scene, rt, camera, gpu, obs>>

\* Lines 473-516: the display pass is encoded.
EncodeDisplay ==
  /\ AtStep("display")
  /\ pending' = StepDone([pending EXCEPT !.encoder = Append(@, "display")])
  /\ UNCHANGED <<scene, rt, camera, gpu, obs>>

\* Line 518: queue.submit; the device runs the encoder's passes in their order.
SubmitFrame ==
  /\ AtStep("submit")
  /\ Len(pending.encoder) = 2
  /\ \E before \in {IF pending.encoder[1] = "compute"
                    THEN computePass(rt, gpu, pending.sample) ELSE gpu} :
       \E out \in displayOutputs(rt, before) :
         \E g1 \in {executed(pending.encoder[1], rt, gpu, pending.sample, out)} :
           gpu' = executed(pending.encoder[2], rt, g1, pending.sample, out)
  /\ obs' = [queue |-> obs.queue \o pending.encoder]
  /\ pending' = StepDone([pending EXCEPT !.encoder = <<>>])
  /\ UNCHANGED <<scene, rt, camera>>

\* Lines 520-560: the copy pass, encoded and submitted.
SubmitCopy ==
  /\ AtStep("copy")
  /\ gpu' = executed("copy", rt, gpu, pending.sample, ZeroTexel)
  /\ obs' = [queue |-> Append(obs.queue, "copy")]
  /\ pending' = StepDone(pending)
  /\ UNCHANGED <<scene, rt, camera>>

\* resetTemporalAccumulation() between two render calls.
ResetBetween ==
  /\ ~pending.inCall
  /\ pending.calls > 0
  /\ obs.queue # <<>>
  /\ \E s \in {resetTemporalAccumulation(rt, gpu)} :
       /\ rt' = s.rt
       /\ gpu' = s.gpu
  /\ obs' = [queue |-> <<>>]
  /\ UNCHANGED <<scene, camera, pending>>

PassNext ==
  \/ EnterRender
  \/ WriteUniforms
  \/ EncodeCompute
  \/ EncodeDisplay
  \/ SubmitFrame
  \/ SubmitCopy
  \/ ResetBetween

PassSpec == PassInit /\ [][PassNext]_vars

\* ------------------------------------------------- the compute dispatch

\* Largest render width and height dispatched.
MaxSize == 17

\* const workgroupSizeX = 16, workgroupSizeY = 16; @workgroup_size(16, 16).
workgroupSize == 16

\* Math.ceil(a / b) for positive integers.
Ceil(a, b) == (a + b - 1) \div b

\* workgroupCountX / workgroupCountY = Math.ceil(size / workgroupSize).
workgroupCount_floor(size) == size \div workgroupSize
workgroupCount(size) == Ceil(size, workgroupSize)

\* Invocations along one axis of the dispatch.
invocationsAlong(size) == workgroupCount(size) * workgroupSize

\* computeMain: the pixels the invocation with this global id stores to
\* (it returns at once if global_id.x >= render_width or global_id.y >= render_height).
computeMain(gx, gy, width, height) ==
  IF gx >= width \/ gy >= height THEN {} ELSE {<<gx, gy>>}

\* The render sizes dispatched, and the coordinates invocations may carry.
Sizes == {1, workgroupSize - 1, workgroupSize, MaxSize}
Coords == 0..(Ceil(MaxSize, workgroupSize) * workgroupSize - 1)

\* pending: the dispatch (its render size, the invocations that ran); obs: how
\* often each coordinate was stored to.
DispatchInit ==
  /\ \E width \in Sizes, height \in Sizes :
       pending = [width |-> width, height |-> height, ran |-> 0]
  /\ obs = [writes |-> [p \in Coords \X Coords |-> 0]]
  /\ \E c \in {sceneCamera(InitialAspect)} :
       /\ scene = declaredScene
       /\ camera = c
       /\ rt = newRayTracer(c, InitialSettings)
       /\ gpu = newGpu(InitialSettings)

\* The global id of the k-th invocation of a dispatch.
globalId(k, width) == <<k % invocationsAlong(width), k \div invocationsAlong(width)>>

\* One invocation of computeMain runs.
Invocation ==
  /\ pending.ran < invocationsAlong(pending.width) * invocationsAlong(pending.height)
  /\ \E id \in {globalId(pending.ran, pending.width)} :
       obs' = [writes |-> [p \in Coords \X Coords |->
                 IF p \in computeMain(id[1], id[2], pending.width, pending.height)
                 THEN obs.writes[p] + 1 ELSE obs.writes[p]]]
  /\ pending' = [pending EXCEPT !.ran = @ + 1]
  /\ UNCHANGED <<scene, rt, camera, gpu>>

DispatchSpec == DispatchInit /\ [][Invocation]_vars

\* ------------------------------------------------- the camera on its own

\* Calls made on a camera after its construction.
MaxCameraCalls == 3

\* Position and target pairs a camera is constructed with: the scene's, the one
\* of PerspectiveCamera.createDefault, and one looking straight up.
Placements ==
  { <<Vector3(0, 3 * Milli, -8 * Milli), Vector3(0, 0, 0)>>,
    <<Vector3(0, 0, -5 * Milli), Vector3(0, 0, 0)>>,
    <<Vector3(0, 0, 0), Vector3(0, 5 * Milli, 0)>> }

\* Arguments of the mutators: pitch deltas (small, and larger than the whole
\* range either way), yaw deltas (pi either way, and more than a turn),
\* positions, fields of view, aspect ratios.
PitchDeltas == {500, 2 * Pi, -2 * Pi}
YawDeltas == {Pi, -Pi, 40001}
Positions == {Vector3(Milli, 2 * Milli, 3 * Milli)}
Fovs == {radians(90)}
Aspects == {Milli}

\* obs: the last call (its name, its angle, the camera before it, what it
\* returned) and, for a rotateY(-a) that follows a rotateY(a) directly, the
\* camera before the two; pending: the calls made, and whether one of them
\* was a moveTo, rotateX, rotateY or resetRotation.
CameraInit ==
  /\ \E p \in Placements :
       camera = newCamera([position |-> p[1], target |-> p[2], up |-> Up,
                           fov |-> radians(60), aspect |-> RDiv(16 * Milli, 9),
                           near |-> 100, far |-> 1000 * Milli])
  /\ obs = [op |-> "constructor", angle |-> 0, from |-> <<>>, roundTrip |-> FALSE,
            origin |-> <<>>, returned |-> <<>>]
  /\ pending = [calls |-> 0, derived |-> FALSE]
  /\ scene = declaredScene
  /\ rt = <<>>
  /\ gpu = <<>>

\* A call left the camera as c2 and returned a value.
Called(op, angle, c2, returned) ==
  /\ pending.calls < MaxCameraCalls
  /\ camera' = c2
  /\ obs' = [op |-> op, angle |-> angle, from |-> camera,
             roundTrip |-> (op = "rotateY" /\ obs.op = "rotateY" /\ obs.angle = -angle),
             origin |-> IF op = "rotateY" /\ obs.op = "rotateY" /\ obs.angle = -angle
                        THEN obs.from ELSE camera,
             returned |-> returned]
  /\ pending' = [calls |-> pending.calls + 1,
                 derived |-> pending.derived
                               \/ op \in {"moveTo", "rotateX", "rotateY", "resetRotation"}]
  /\ UNCHANGED <<scene, rt, gpu>>

RotateX == \E angle \in PitchDeltas : Called("rotateX", angle, rotateX(camera, angle), <<>>)

RotateY == \E angle \in YawDeltas : Called("rotateY", angle, rotateY(camera, angle), <<>>)

MoveTo == \E position \in Positions : Called("moveTo", 0, moveTo(camera, position), <<>>)

ResetRotation == Called("resetRotation", 0, resetRotation(camera), <<>>)

SetFOV == \E fov \in Fovs : Called("setFOV", 0, setFOV(camera, fov), <<>>)

SetAspect == \E aspect \in Aspects : Called("setAspect", 0, setAspect(camera, aspect), <<>>)

\* getShaderData(), getViewMatrix(), getProjectionMatrix(): updateMatrices(),
\* then the value read from the camera it leaves.
GetShaderData ==
  \E u \in {updateMatrices(camera)} : Called("getShaderData", 0, u, shaderDataOf(u))

GetViewMatrix ==
  \E u \in {updateMatrices(camera)} : Called("getViewMatrix", 0, u, u.viewMatrix)

GetProjectionMatrix ==
  \E u \in {updateMatrices(camera)} : Called("getProjectionMatrix", 0, u, u.projectionMatrix)

CameraNext ==
  \/ RotateX
  \/ RotateY
  \/ MoveTo
  \/ ResetRotation
  \/ SetFOV
  \/ SetAspect
  \/ GetShaderData
  \/ GetViewMatrix
  \/ GetProjectionMatrix

CameraSpec == CameraInit /\ [][CameraNext]_vars

\* ------------------------------------------- the component's life cycle

\* The component as declared, with the fields its life cycle uses: the id of the
\* frame callback stored in animationFrame (0: undefined), the two cleanup
\* closures (assigned or not) and whether bind:this holds the canvas element.
unmounted ==
  declaredScene @@ [animationFrame |-> 0, cleanupInputHandlers |-> FALSE,
                    cleanupResizeHandler |-> FALSE, canvas |-> TRUE]

\* The browser: whether navigator.gpu exists, what requestAdapter resolved with,
\* the window's size, where onMount stands, the frame callbacks requested and not yet run or cancelled, the
\* listeners registered, the console.error calls and requestAdapter calls made,
\* whether the component was destroyed, and the statement of the frame callback
\* that runs next (0: no frame callback is running).
newBrowser(navigatorGpu, window) ==
  [navigatorGpu |-> navigatorGpu, adapter |-> "pending", window |-> window,
   mount |-> "start",
   callbacks |-> {}, nextCallback |-> 1, listeners |-> {}, errors |-> 0,
   adapterRequests |-> 0, destroyed |-> FALSE, at |-> 0, sample |-> 0,
   targets |-> <<>>, out |-> ZeroTexel, events |-> 0, ticks |-> 0]

\* requestAnimationFrame(render) returns the id of the callback it queues.
requestAnimationFrame(b) ==
  [b EXCEPT !.callbacks = @ \cup {b.nextCallback}, !.nextCallback = @ + 1]

cancelAnimationFrame(b, id) == [b EXCEPT !.callbacks = @ \ {id}]

\* onMount, lines 95-98, without the return statement.
noAdapter_continue(b) == [b EXCEPT !.errors = @ + 1, !.mount = "device"]

\* onMount, lines 89-92: console.error("WebGPU not supported"); return.
unsupported(b) == [b EXCEPT !.errors = @ + 1, !.mount = "returned"]

\* onMount, lines 95-98: console.error("No GPU adapter found"); return.
noAdapter(b) == [b EXCEPT !.errors = @ + 1, !.mount = "returned"]

\* startRenderLoop, line 465: the first callback is requested and its id dropped.
startRenderLoop(b) == requestAnimationFrame(b)

\* The value startRenderLoop leaves in animationFrame: it assigns none.
firstFrameId(b) == 0

\* setupInputHandlers and setupResizeHandler: the listeners are added.
setupHandlers(b) == [b EXCEPT !.listeners = {"input", "resize"}]

\* onDestroy, lines 190-200: what it does to the browser.
onDestroy(s, b) ==
  LET b1 == IF s.animationFrame # 0 THEN cancelAnimationFrame(b, s.animationFrame) ELSE b
      b2 == IF s.cleanupInputHandlers THEN [b1 EXCEPT !.listeners = @ \ {"input"}] ELSE b1
      b3 == IF s.cleanupResizeHandler THEN [b2 EXCEPT !.listeners = @ \ {"resize"}] ELSE b2
  IN  [b3 EXCEPT !.destroyed = TRUE]

\* The statements of one frame callback, lines 456-463: updateCamera(), the
\* statements of raytracer.render, temporalFrameCount++, and the request for the
\* next callback.
tickSteps == <<"updateCamera">> \o renderSteps \o <<"count", "schedule">>

\* A frame callback that awaits the device between its compute and display pass.
suspends_beforeDisplay(step) == step = "display"
\* Does the callback give up the thread before this statement?  render() and the
\* frame callback are synchronous functions: they hold no await.
suspends(step) == FALSE

\* No frame callback holds the thread: event handlers and continuations may run.
Idle == IF pending.at = 0 THEN TRUE ELSE suspends(tickSteps[pending.at])

\* What the history keeps of a step of the life cycle: the operation, the
\* statement of a frame callback at which it ran (0: between callbacks), whether
\* the component had been destroyed, and, for a copy pass, whether the targets
\* were those of the frame's compute pass and the snapshot the frame's own.
LifeObservation(op) ==
  [op |-> op, during |-> pending.at, afterDestroy |-> pending.destroyed,
   targetsKept |-> TRUE, snapshotKept |-> TRUE]

LifeInit ==
  \E navigatorGpu \in BOOLEAN, window \in Windows :
    /\ scene = unmounted
    /\ camera = <<>>
    /\ rt = <<>>
    /\ gpu = <<>>
    /\ obs = [op |-> "created", during |-> 0, afterDestroy |-> FALSE,
              targetsKept |-> TRUE, snapshotKept |-> TRUE]
    /\ pending = newBrowser(navigatorGpu, window)

\* onMount, lines 89-94: up to the await of requestAdapter.
MountStart ==
  /\ Idle
  /\ pending.mount = "start"
  /\ pending' = IF pending.navigatorGpu
                THEN [pending EXCEPT !.mount = "adapter", !.adapterRequests = @ + 1]
                ELSE unsupported(pending)
  /\ obs' = LifeObservation("onMount")
  /\ UNCHANGED <<scene, camera, rt, gpu>>

\* onMount, lines 94-100: requestAdapter resolves, with an adapter or with null.
AdapterResolved ==
  /\ Idle
  /\ pending.mount = "adapter"
  /\ \E adapter \in BOOLEAN :
       pending' = IF adapter
                  THEN [pending EXCEPT !.mount = "device", !.adapter = "found"]
                  ELSE [noAdapter(pending) EXCEPT !.adapter = "none"]
  /\ obs' = LifeObservation("adapter")
  /\ UNCHANGED <<scene, camera, rt, gpu>>

\* onMount, lines 100-159: requestDevice resolves and the rest of onMount runs:
\* canvas.getContext (a TypeError if bind:this was cleared), the camera, the
\* RayTracer, startRenderLoop, the input handlers and the resize handler.
DeviceResolved ==
  /\ Idle
  /\ pending.mount = "device"
  /\ IF scene.canvas
     THEN \E w \in {onMount(pending.window[1], pending.window[2])} :
            /\ scene' = w.scene @@ [animationFrame |-> firstFrameId(pending),
                                    cleanupInputHandlers |-> TRUE,
                                    cleanupResizeHandler |-> TRUE,
                                    canvas |-> TRUE]
            /\ camera' = w.camera
            /\ rt' = w.rt
            /\ gpu' = w.gpu
            /\ pending' = [setupHandlers(startRenderLoop(pending)) EXCEPT !.mount = "done"]
     ELSE /\ pending' = [pending EXCEPT !.mount = "threw"]
          /\ UNCHANGED <<scene, camera, rt, gpu>>
  /\ obs' = LifeObservation("device")

\* onDestroy; the framework may clear bind:this on teardown.
Destroy ==
  /\ Idle
  /\ ~pending.destroyed
  /\ pending' = onDestroy(scene, pending)
  /\ \E cleared \in BOOLEAN : scene' = [scene EXCEPT !.canvas = ~cleared]
  /\ obs' = LifeObservation("onDestroy")
  /\ UNCHANGED <<camera, rt, gpu>>

\* The browser runs a requested frame callback.
FrameCallback ==
  /\ pending.at = 0
  /\ pending.ticks < MaxTicks
  /\ \E id \in pending.callbacks, sample \in Samples :
       pending' = [pending EXCEPT !.callbacks = @ \ {id}, !.at = 1, !.sample = sample,
                                  !.ticks = @ + 1]
  /\ obs' = LifeObservation("frame")
  /\ UNCHANGED <<scene, camera, rt, gpu>>

\* The frame callback is at this statement and holds the thread.
AtTickStep(step) ==
  /\ pending.at > 0
  /\ tickSteps[pending.at] = step

TickStepDone(b) == [b EXCEPT !.at = IF @ = Len(tickSteps) THEN 0 ELSE @ + 1]

\* Line 456: updateCamera().
TickUpdateCamera ==
  /\ AtTickStep("updateCamera")
  /\ Becomes(scene_updateCamera(World))
  /\ pending' = TickStepDone(pending)
  /\ obs' = LifeObservation("updateCamera")

\* Line 457, render lines 450-454: the stores are written.
TickUniforms ==
  /\ AtTickStep("uniforms")
  /\ rt' = renderUniforms(rt, camera, scene.temporalFrameCount)
  /\ camera' = updateMatrices(camera)
  /\ pending' = TickStepDone(pending)
  /\ obs' = LifeObservation("uniforms")
  /\ UNCHANGED <<scene, gpu>>

\* render lines 459-470: the compute pass is encoded for the current targets.
TickCompute ==
  /\ AtTickStep("compute")
  /\ pending' = TickStepDone(
       [pending EXCEPT !.targets = <<rt.renderTexture, rt.lastFrameBuffer,
                                     rt.accumulatedFrameTexture>>])
  /\ obs' = LifeObservation("compute")
  /\ UNCHANGED <<scene, camera, rt, gpu>>

\* render lines 473-516: the display pass is encoded.
TickDisplay ==
  /\ AtTickStep("display")
  /\ pending' = TickStepDone(pending)
  /\ obs' = LifeObservation("display")
  /\ UNCHANGED <<scene, camera, rt, gpu>>

\* render line 518: the two passes are submitted and run.
TickSubmit ==
  /\ AtTickStep("submit")
  /\ \E g1 \in {computePass(rt, gpu, pending.sample)} :
       \E out \in displayOutputs(rt, g1) :
         /\ gpu' = displayPass(rt, g1, out)
         /\ pending' = TickStepDone([pending EXCEPT !.out = out])
  /\ obs' = LifeObservation("submit")
  /\ UNCHANGED <<scene, camera, rt>>

\* render lines 520-560: the copy pass.
TickCopy ==
  /\ AtTickStep("copy")
  /\ gpu' = copyPass(rt, gpu)
  /\ pending' = TickStepDone(pending)
  /\ obs' = [LifeObservation("copy") EXCEPT
               !.targetsKept =
                 /\ pending.targets = <<rt.renderTexture, rt.lastFrameBuffer,
                                        rt.accumulatedFrameTexture>>
                 /\ \A i \in 1..3 : IsLive(gpu, pending.targets[i]),
               !.snapshotKept = (gpu'.textures[rt.accumulatedFrameTexture].texel
                                   = pending.out)]
  /\ UNCHANGED <<scene, camera, rt>>

\* Line 458: temporalFrameCount++.
TickCount ==
  /\ AtTickStep("count")
  /\ Becomes(counted(World))
  /\ pending' = TickStepDone(pending)
  /\ obs' = LifeObservation("count")

\* Line 463: animationFrame = requestAnimationFrame(render).
TickSchedule ==
  /\ AtTickStep("schedule")
  /\ scene' = [scene EXCEPT !.animationFrame = pending.nextCallback]
  /\ pending' = TickStepDone(requestAnimationFrame(pending))
  /\ obs' = LifeObservation("schedule")
  /\ UNCHANGED <<camera, rt, gpu>>

\* An event handler ran on the component and left it as w2.
LifeHandled(op, w2) ==
  /\ Idle
  /\ pending.events < MaxEvents
  /\ Becomes(w2)
  /\ pending' = [pending EXCEPT !.events = @ + 1]
  /\ obs' = LifeObservation(op)

\* A keydown event reaches the document's listener.
LifeKeyDown ==
  /\ "input" \in pending.listeners
  /\ \E key \in {"w", "q"} :
       LifeHandled("keydown", [World EXCEPT !.scene = handleKeyDown(scene, key)])

\* A resize event reaches the window's listener; lines 708-709: the handler
\* returns at once without the canvas.
LifeResize ==
  /\ "resize" \in pending.listeners
  /\ \E window \in Windows :
       LifeHandled("resize", IF scene.canvas
                             THEN handleResize(World, window[1], window[2])
                             ELSE World)

\* The bounces slider of the mounted component is moved, once the RayTracer
\* exists: bind:value, then updateMaxBounces.
LifeSlider ==
  /\ ~pending.destroyed
  /\ pending.mount = "done"
  /\ \E v \in BounceValues :
       LifeHandled("slider", updateMaxBounces([World EXCEPT !.scene.maxBounces = v]))

LifeNext ==
  \/ MountStart
  \/ AdapterResolved
  \/ DeviceResolved
  \/ Destroy
  \/ FrameCallback
  \/ TickUpdateCamera
  \/ TickUniforms
  \/ TickCompute
  \/ TickDisplay
  \/ TickSubmit
  \/ TickCopy
  \/ TickCount
  \/ TickSchedule
  \/ LifeKeyDown
  \/ LifeResize
  \/ LifeSlider

LifeSpec == LifeInit /\ [][LifeNext]_vars

\* ------------------------------------------------------------- claims

\* The last render call's frame index, sample, and outputs.
RenderedFrame == rt.frameCountBuffer
CurrentSample == gpu.textures[rt.renderTextureView].texel
SurfaceOutput == gpu.surface
SnapshotOutput == gpu.textures[rt.lastFrameBufferView].texel

\* C1: a frame rendered with frame index 0..4 shows and stores the current
\* frame's sample exactly, whatever the accumulation target held.
C1_PassThrough ==
  (obs.op = "render" /\ RenderedFrame < 5) =>
    /\ SurfaceOutput = CurrentSample
    /\ SnapshotOutput = CurrentSample

\* C1 witness: frame 4 rendered over a white accumulation target shows the grey
\* sample.
C1_Witness ==
  /\ obs.op = "render"
  /\ RenderedFrame = 4
  /\ obs.previous = [c |-> MaxLevel, a |-> MaxLevel]
  /\ SurfaceOutput = [c |-> MidSample, a |-> MaxLevel]

\* C2 as stated: for frame index n >= 5 the output equals
\* previous * (1 - w) + current * w with w = 1 / (n + 1), exactly.
C2_ExactBlend ==
  (obs.op = "render" /\ RenderedFrame >= 5) =>
    /\ SurfaceOutput.c * (RenderedFrame + 1)
         = obs.previous.c * RenderedFrame + CurrentSample.c
    /\ SurfaceOutput.a * (RenderedFrame + 1)
         = obs.previous.a * RenderedFrame + CurrentSample.a

\* Within half a quantisation step of previous * (1 - w) + current * w, w = 1/(n+1).
RoundedBlend(out, previous, current, n) ==
  2 * Abs(out * (n + 1) - (previous * n + current)) <= n + 1

\* C2 amended: for frame index n >= 5 the output, on the surface and in the
\* snapshot store, is previous * (1 - w) + current * w rounded to a nearest 8-bit
\* level, where previous is what the accumulation target holds: the output the
\* preceding render call committed, the clear value, or a fresh target's zeros.
C2_RoundedBlend ==
  (obs.op = "render" /\ RenderedFrame >= 5) =>
    /\ RoundedBlend(SurfaceOutput.c, obs.previous.c, CurrentSample.c, RenderedFrame)
    /\ RoundedBlend(SurfaceOutput.a, obs.previous.a, CurrentSample.a, RenderedFrame)
    /\ SnapshotOutput = SurfaceOutput
    /\ IF obs.hadCommit THEN obs.previous = obs.committed
                        ELSE obs.previous \in {ClearValue, ZeroTexel}

\* C2 witness: a blended frame whose output lies strictly between the white
\* history and the grey sample.
C2_Witness ==
  /\ obs.op = "render"
  /\ RenderedFrame >= 5
  /\ obs.hadCommit
  /\ obs.previous.c = MaxLevel
  /\ CurrentSample.c = MidSample
  /\ SurfaceOutput.c > MidSample
  /\ SurfaceOutput.c < MaxLevel

\* The samples s_from .. s_to of the history (s_0 is samples[1]), summed.
RECURSIVE SumOfSamples(_, _)
SumOfSamples(from, to) ==
  IF from > to THEN 0 ELSE pending.samples[from + 1] + SumOfSamples(from + 1, to)

\* C3 as stated: at rest, with no invalidation since frame 0, the blend at frame
\* n >= 5 is, rounding apart, the mean of the samples s_0 .. s_n.
C3_MeanOfAllSamples ==
  (obs.op = "tick" /\ RenderedFrame >= 5) =>
    pending.unrounded.num * (RenderedFrame + 1)
      = pending.unrounded.den * SumOfSamples(0, RenderedFrame)

\* C3 amended: frames 0..4 are shown as they are, so at frame n >= 5 the blend is,
\* rounding apart, (5 * s_4 + s_5 + ... + s_n) / (n + 1): s_0 .. s_3 do not enter
\* and s_4 counts five times.  The stored output is within the rounding that
\* accumulated since frame 5, at most ((n + 1)(n + 2) - 30) / (4 (n + 1)) levels.
C3_MeanSincePassThrough ==
  (obs.op = "tick" /\ RenderedFrame >= 5) =>
    /\ pending.unrounded.num * (RenderedFrame + 1)
         = pending.unrounded.den
             * (5 * pending.samples[5] + SumOfSamples(5, RenderedFrame))
    /\ 4 * (RenderedFrame + 1)
           * Abs(SurfaceOutput.c * pending.unrounded.den - pending.unrounded.num)
         <= pending.unrounded.den * ((RenderedFrame + 1) * (RenderedFrame + 2) - 30)

\* C3 witness: frame 6 at rest, where s_0 differs from s_4 and the mean of all
\* samples differs from the blend.
C3_Witness ==
  /\ obs.op = "tick"
  /\ RenderedFrame = 6
  /\ pending.samples[1] # pending.samples[5]
  /\ pending.samples[6] # pending.samples[7]
  /\ 7 * pending.unrounded.num # pending.unrounded.den * SumOfSamples(0, 6)
  /\ SurfaceOutput.c # CurrentSample.c

\* C4: once the samples have been a constant C for ConvergedAfter frames, the
\* output kept in the accumulation target is within a quantisation step of C,
\* whatever the samples before were.
C4_ConvergesToConstant ==
  (/\ obs.op = "tick"
   /\ pending.constant # NoConstant
   /\ RenderedFrame >= pending.since + ConvergedAfter) =>
    /\ Abs(gpu.textures[rt.accumulatedFrameTexture].texel.c - pending.constant) <= 1
    /\ Abs(SurfaceOutput.c - pending.constant) <= 1

\* C5: the render call that follows resetAccumulation or
\* resetTemporalAccumulation outputs its own sample, as frame index 0 does.
C5_ResetThenRender ==
  (obs.op = "render" /\ obs.afterReset) =>
    /\ SurfaceOutput = CurrentSample
    /\ SnapshotOutput = CurrentSample

\* C6: a frame rendered after the input layer changed the camera's position,
\* pitch, yaw or field of view, or the render settings, is rendered with frame
\* index 0 over a cleared accumulation target.
C6_ChangeThenReset ==
  (obs.op = "tick" /\ obs.changed) =>
    /\ obs.frameArg = 0
    /\ rt.frameCountBuffer = 0
    /\ obs.previous = ClearValue

\* C7: the frame index passed to render is 0 on the first frame after the
\* component invalidated the accumulation (however often), else one more than
\* the index passed to the render call before; the counter is then one past it.
C7_FrameIndexCounts ==
  obs.op = "tick" =>
    /\ obs.frameArg = (IF obs.invalidations > 0 THEN 0 ELSE obs.previousFrameArg + 1)
    /\ rt.frameCountBuffer = obs.frameArg
    /\ rt.uniformsBuffer.frame_count = obs.frameArg
    /\ scene.temporalFrameCount = obs.frameArg + 1

\* C7 witness: after frames 0 and 1, two invalidations, then a frame with index 0
\* that leaves the counter at 1.
C7_Witness ==
  /\ obs.op = "tick"
  /\ obs.invalidations >= 2
  /\ obs.previousFrameArg >= 1
  /\ obs.frameArg = 0
  /\ scene.temporalFrameCount = 1

\* C8: the accumulated texel that the first display pass after
\* updateRenderSettings reads has been cleared to opaque black.
C8_ClearedBeforeRead ==
  (obs.op = "render" /\ obs.afterSettings) => obs.previous = ClearValue

\* A step of updateRenderSettings.
SettingsStep == obs'.op = "updateRenderSettings"

\* The new settings' dimensions against the allocated targets'.
SameRenderDimensions ==
  /\ rt'.renderSettings.renderWidth = gpu.textures[rt.renderTexture].width
  /\ rt'.renderSettings.renderHeight = gpu.textures[rt.renderTexture].height

SameDisplayDimensions ==
  /\ rt'.renderSettings.displayWidth = gpu.textures[rt.lastFrameBuffer].width
  /\ rt'.renderSettings.displayHeight = gpu.textures[rt.lastFrameBuffer].height
  /\ rt'.renderSettings.displayWidth = gpu.textures[rt.accumulatedFrameTexture].width
  /\ rt'.renderSettings.displayHeight = gpu.textures[rt.accumulatedFrameTexture].height

\* The step keeps a target: same texture, same size, still live.
Kept(before, after) ==
  /\ after = before
  /\ gpu'.textures[after].state = "live"
  /\ gpu'.textures[after].width = gpu.textures[before].width
  /\ gpu'.textures[after].height = gpu.textures[before].height

\* The step destroys a target and puts a texture created in this step in its place.
Recreated(before, after) ==
  /\ gpu.textures[before].state = "live"
  /\ gpu'.textures[before].state = "destroyed"
  /\ after >= gpu.nextTextureId
  /\ gpu'.textures[after].state = "live"

\* Textures the step created, and those it destroyed.
CreatedInStep == {id \in TextureIds : gpu.textures[id].state = "none"
                                      /\ gpu'.textures[id].state # "none"}
DestroyedInStep == {id \in TextureIds : gpu.textures[id].state = "live"
                                        /\ gpu'.textures[id].state = "destroyed"}

\* C9: updateRenderSettings with the allocated targets' dimensions destroys and
\* creates no texture; the three targets keep their identity.
C9_SameDimensionsKeepTargets ==
  [][(SettingsStep /\ SameRenderDimensions /\ SameDisplayDimensions) =>
       /\ Kept(rt.renderTexture, rt'.renderTexture)
       /\ Kept(rt.lastFrameBuffer, rt'.lastFrameBuffer)
       /\ Kept(rt.accumulatedFrameTexture, rt'.accumulatedFrameTexture)
       /\ CreatedInStep = {}
       /\ DestroyedInStep = {}]_vars

\* C9 witness: after a call that changed the render size (texture 4 replaced
\* texture 1), the call is repeated with the settings in force.
C9_Witness ==
  /\ obs.op = "updateRenderSettings"
  /\ obs.repeat
  /\ obs.sameRender
  /\ obs.sameDisplay
  /\ rt.renderTexture = 4
  /\ gpu.textures[1].state = "destroyed"
  /\ gpu.nextTextureId = 5

\* C10: a call that changes only the render dimensions recreates exactly the
\* low-res target and keeps the accumulation and snapshot targets (and the
\* snapshot's contents); a call that changes only the display dimensions
\* recreates exactly those two and keeps the low-res target and its contents.
C10_ReallocatesKeyedTargets ==
  [][/\ (SettingsStep /\ ~SameRenderDimensions /\ SameDisplayDimensions) =>
          /\ Recreated(rt.renderTexture, rt'.renderTexture)
          /\ Kept(rt.lastFrameBuffer, rt'.lastFrameBuffer)
          /\ Kept(rt.accumulatedFrameTexture, rt'.accumulatedFrameTexture)
          /\ gpu'.textures[rt.lastFrameBuffer].texel = gpu.textures[rt.lastFrameBuffer].texel
          /\ CreatedInStep = {rt'.renderTexture}
          /\ DestroyedInStep = {rt.renderTexture}
     /\ (SettingsStep /\ SameRenderDimensions /\ ~SameDisplayDimensions) =>
          /\ Kept(rt.renderTexture, rt'.renderTexture)
          /\ gpu'.textures[rt.renderTexture].texel = gpu.textures[rt.renderTexture].texel
          /\ Recreated(rt.lastFrameBuffer, rt'.lastFrameBuffer)
          /\ Recreated(rt.accumulatedFrameTexture, rt'.accumulatedFrameTexture)
          /\ rt'.lastFrameBuffer # rt'.accumulatedFrameTexture
          /\ CreatedInStep = {rt'.lastFrameBuffer, rt'.accumulatedFrameTexture}
          /\ DestroyedInStep = {rt.lastFrameBuffer, rt.accumulatedFrameTexture}]_vars

\* C10 witness: a display-only change (textures 5 and 6 replace 2 and 3) after a
\* render-only change (texture 4 replaced 1).
C10_Witness ==
  /\ obs.op = "updateRenderSettings"
  /\ obs.sameRender
  /\ ~obs.sameDisplay
  /\ rt.renderTexture = 4
  /\ rt.lastFrameBuffer = 5
  /\ rt.accumulatedFrameTexture = 6
  /\ gpu.textures[4].state = "live"
  /\ gpu.textures[4].width = 3
  /\ gpu.textures[5].width = 6
  /\ \A id \in 1..3 : gpu.textures[id].state = "destroyed"

\* ----------------------------------------------- claims on the uniform stores

\* The camera uniform block computed from the camera's fields as they are now
\* (the view matrix recomputed, not the cached one) and the settings in force.
currentCameraBlock(u, settings) ==
  [position |-> u.position, forward |-> getForward(u), up |-> getUpBasis(u),
   right |-> getRight(u), fov |-> u.fov, aspect |-> u.aspect,
   render_width |-> settings.renderWidth, render_height |-> settings.renderHeight]

\* C11: at the dispatch and the draw of every render(frameIndex) call, whatever
\* the input handlers, sliders and resizes did before it, the camera store holds
\* the camera's current position, basis, fov and aspect and the current render
\* size, the bounce and sample stores hold the current settings' values, and the
\* compute frame-count store and the display frame_count field hold frameIndex.
C11_StoresCurrent ==
  obs.op = "tick" =>
    /\ rt.renderSettings = renderSettingsOf(scene)
    /\ rt.cameraBuffer =
         currentCameraBlock([camera EXCEPT !.viewMatrix = calculateViewMatrix(camera)],
                            rt.renderSettings)
    /\ rt.maxBouncesBuffer = rt.renderSettings.maxBounces
    /\ rt.raysPerPixelBuffer = rt.renderSettings.raysPerPixel
    /\ rt.frameCountBuffer = obs.frameArg
    /\ rt.uniformsBuffer = displayUniforms(rt.renderSettings, obs.frameArg)

\* C11 witness: a frame rendered after the fov slider and the bounce slider were
\* moved, the stores holding the new values.
C11_Witness ==
  /\ obs.op = "tick"
  /\ camera.fov = radians(90)
  /\ rt.cameraBuffer.fov = radians(90)
  /\ rt.renderSettings.maxBounces = 5
  /\ rt.maxBouncesBuffer = 5
  /\ rt.frameCountBuffer = 0

\* ------------------------------------------------- claims on the pass order

\* C12: the work a render call enqueues is, in this order, the uniform refresh,
\* the compute pass, the display pass and the copy pass: the display pass is
\* never enqueued before the call's compute pass, nor the copy pass before its
\* display pass, and a call that returned has enqueued all four.
C12_PassOrder ==
  /\ Len(obs.queue) <= 4
  /\ \A i \in DOMAIN obs.queue :
       obs.queue[i] = <<"uniforms", "compute", "display", "copy">>[i]
  /\ \A i \in DOMAIN pending.encoder :
       pending.encoder[i] = <<"compute", "display">>[i]
  /\ (~pending.inCall /\ obs.queue # <<>>) => Len(obs.queue) = 4

\* C12 witness: a second render call returned, having enqueued the four pieces
\* of work and left its mid-grey sample of a pass-through frame on the surface.
C12_Witness ==
  /\ ~pending.inCall
  /\ pending.calls = 2
  /\ obs.queue = <<"uniforms", "compute", "display", "copy">>
  /\ pending.frameCount = 0
  /\ pending.sample = MidSample
  /\ gpu.surface.c = MidSample
  /\ gpu.textures[rt.accumulatedFrameTexture].texel.c = MidSample

\* --------------------------------------------- claims on the copy pass

\* C13: after every render call the accumulation target holds the blended texel
\* the call's display pass stored in the snapshot, which is also the texel on the
\* visible surface; a render call that follows directly reads it as its
\* previous frame.
C13_AccumulationIsDisplayed ==
  [][/\ obs'.op = "render" =>
          /\ gpu'.textures[rt'.lastFrameBuffer].texel = pending'.committed
          /\ gpu'.textures[rt'.accumulatedFrameTexture].texel =
               gpu'.textures[rt'.lastFrameBuffer].texel
          /\ gpu'.surface = gpu'.textures[rt'.lastFrameBuffer].texel
     /\ (obs.op = "render" /\ obs'.op = "render") => obs'.previous = gpu.surface]_vars

\* C13 witness: a blended frame (white over mid-grey at frame index 5) whose
\* output, level 126, is on the surface and in the accumulation target, the
\* previous frame having been the output of the render call before.
C13_Witness ==
  /\ obs.op = "render"
  /\ obs.hadCommit
  /\ obs.previous = obs.committed
  /\ obs.previous.c = MidSample
  /\ rt.frameCountBuffer = AccumulateFrom
  /\ gpu.surface.c = 126
  /\ gpu.textures[rt.accumulatedFrameTexture].texel.c = 126

\* ---------------------------------------------- claims on the compute dispatch

\* C14: for a render size W x H, no invocation of the dispatch stores to a
\* coordinate with x >= W or y >= H, none stores twice to a pixel, and when the
\* ceil(W/16) x ceil(H/16) workgroups of 16 x 16 invocations have all run, every
\* pixel (x, y) with x < W and y < H has been stored to exactly once.
C14_EachPixelOnce ==
  \A p \in Coords \X Coords :
    IF p[1] < pending.width /\ p[2] < pending.height
    THEN /\ obs.writes[p] <= 1
         /\ ~ENABLED Invocation => obs.writes[p] = 1
    ELSE obs.writes[p] = 0

\* C14 witness: the dispatch for 17 x 17 has run its 32 x 32 invocations; the
\* pixel (16, 16) of the last tile was stored to, its neighbour (17, 16) not.
C14_Witness ==
  /\ pending.width = 17
  /\ pending.height = 17
  /\ pending.ran = 32 * 32
  /\ obs.writes[<<16, 16>>] = 1
  /\ obs.writes[<<17, 16>>] = 0

\* ------------------------------------------------- claims on the camera

\* C15: in every state of a camera, from its construction on and after any
\* rotateX, rotateY, moveTo and resetRotation calls, pitch lies within
\* [-pi/2 + 0.01, pi/2 - 0.01].
C15_PitchWithinLimits ==
  /\ -PitchLimit <= camera.pitch
  /\ camera.pitch <= PitchLimit

\* Thousandths by which a length, a dot product or a coordinate computed in
\* fixed point may differ from its exact value.
Tolerance == 10

IsUnit(v) == Abs(length(v) - Milli) <= Tolerance
Orthogonal(v, w) == Abs(dot(v, w)) <= Tolerance
Near(v, w) == \A i \in 1..3 : Abs(v[i] - w[i]) <= Tolerance

\* C16: in every state of a camera, the forward, right and up vectors that
\* getShaderData returns are of unit length and pairwise orthogonal.
C16_OrthonormalBasis ==
  \E d \in {getShaderData(camera)} :
    /\ IsUnit(d.forward)
    /\ IsUnit(d.right)
    /\ IsUnit(d.up)
    /\ Orthogonal(d.forward, d.right)
    /\ Orthogonal(d.forward, d.up)
    /\ Orthogonal(d.right, d.up)

\* C17: directly after a moveTo, rotateX or rotateY call, getTarget() is
\* getPosition() + getForward() * 5.
C17_TargetFromForward ==
  obs.op \in {"moveTo", "rotateX", "rotateY"} =>
    Near(camera.target, add(camera.position, mul(getForward(camera), LookDistance)))

\* C18: whatever mutators were called before, getShaderData(), getViewMatrix()
\* and getProjectionMatrix() return what the camera's position, target, up, fov,
\* aspect, near and far at the time of the call yield, not a cached value that
\* precedes the latest mutator.
C18_GettersCurrent ==
  /\ obs.op = "getShaderData" =>
       obs.returned =
         shaderDataOf([camera EXCEPT !.viewMatrix = calculateViewMatrix(camera)])
  /\ obs.op = "getViewMatrix" => obs.returned = calculateViewMatrix(camera)
  /\ obs.op = "getProjectionMatrix" => obs.returned = calculateProjectionMatrix(camera)

\* C18 witness: getProjectionMatrix() right after setFOV(pi/2) on a camera that
\* was moved before, returning the projection of the new field of view.
C18_Witness ==
  /\ obs.op = "getProjectionMatrix"
  /\ obs.from.matricesDirty
  /\ camera.fov = radians(90)
  /\ camera.position \in Positions
  /\ obs.returned[6] = Milli

\* C19: resetRotation sets pitch and yaw to 0, sets the target to the position
\* plus (0, 0, 1) * 5, marks the matrices dirty, and leaves position, up, fov,
\* aspect, near and far as they were.
C19_ResetRotation ==
  [][obs'.op = "resetRotation" =>
       /\ camera'.pitch = 0
       /\ camera'.yaw = 0
       /\ camera'.target = add(camera.position, Vector3(0, 0, 5 * Milli))
       /\ camera'.matricesDirty
       /\ camera'.position = camera.position
       /\ camera'.up = camera.up
       /\ camera'.fov = camera.fov
       /\ camera'.aspect = camera.aspect
       /\ camera'.near = camera.near
       /\ camera'.far = camera.far]_vars

\* C19 witness: resetRotation on a camera turned by more than a turn and read
\* since, looking along +z again from where it stood.
C19_Witness ==
  /\ obs.op = "resetRotation"
  /\ obs.from.yaw = 40001
  /\ ~obs.from.matricesDirty
  /\ camera.yaw = 0
  /\ camera.matricesDirty
  /\ camera.target = add(camera.position, Vector3(0, 0, 5 * Milli))
  /\ camera.target # obs.from.target

\* The forward vector of a camera: the unit vector from its position to its target.
lookDirection(c) == normalize(sub(c.target, c.position))

C25_QDownEUp ==
  [][(obs'.op = "tick" /\ pending'.ticks = pending.ticks + 1) =>
       /\ ("q" \in scene.keys /\ scene.keys \subseteq {"q", "shift"}) =>
            /\ camera'.position[2] < camera.position[2]
            /\ camera'.pitch = camera.pitch
            /\ camera'.yaw = camera.yaw
       /\ ("e" \in scene.keys /\ scene.keys \subseteq {"e", "shift"}) =>
            /\ camera'.position[2] > camera.position[2]
            /\ camera'.pitch = camera.pitch
            /\ camera'.yaw = camera.yaw]_vars

\* WebGPU is unsupported, or requestAdapter resolved with no adapter.
Unavailable == ~pending.navigatorGpu \/ pending.adapter = "none"

\* C21: if WebGPU is unsupported or no adapter is found at startup, rendering
\* never starts: no RayTracer is constructed, no frame callback is requested or
\* run, no input or resize listener is added, the error is logged exactly once
\* and requestAdapter is not called again.
C21_NeverStartsWithoutDevice ==
  Unavailable =>
    /\ rt = <<>>
    /\ gpu = <<>>
    /\ pending.callbacks = {} /\ pending.nextCallback = 1
    /\ pending.at = 0 /\ pending.ticks = 0
    /\ pending.listeners = {}
    /\ ~scene.cleanupInputHandlers /\ ~scene.cleanupResizeHandler
    /\ pending.errors = (IF pending.mount = "start" THEN 0 ELSE 1)
    /\ pending.adapterRequests <= 1
    /\ pending.mount \in {"start", "returned"}

\* requestAdapter resolved with null, onMount returned, and the component was
\* destroyed afterwards.
C21_Witness ==
  /\ pending.adapter = "none"
  /\ pending.mount = "returned"
  /\ pending.errors = 1
  /\ pending.destroyed

\* The statements of a frame callback, with its start.
TickOps == {"frame", "updateCamera", "uniforms", "compute", "display", "submit",
            "copy", "count", "schedule"}

\* C22: once onDestroy has run, no frame callback runs any more, however the
\* teardown interleaves with the awaits of onMount and with the first callback
\* startRenderLoop requested.
C22_NoTickAfterTeardown == obs.op \in TickOps => ~obs.afterDestroy

\* C23: when onDestroy has run on a component that holds a RayTracer, the
\* orchestrator's textures (low-res, accumulation, snapshot) are released: none
\* of the device's textures is live any more.
C23_ReleasedOnTeardown ==
  (obs.op = "onDestroy" /\ rt # <<>>) => \A id \in TextureIds : ~IsLive(gpu, id)

\* C24: a frame callback runs to completion: no input, resize or slider handler
\* (so no settings update and no reset of theirs) and no teardown runs while a
\* frame callback is between its camera update and its copy pass; the copy pass
\* works on the textures the frame's compute pass was encoded for, all live, and
\* commits the snapshot the frame's own display pass stored.
C24_TickRunsToCompletion ==
  /\ obs.op \in {"keydown", "resize", "slider", "onDestroy"} => obs.during = 0
  /\ obs.op = "copy" => obs.targetsKept /\ obs.snapshotKept

\* The copy pass of a second frame, with handlers having run before it.
C24_Witness ==
  /\ obs.op = "copy"
  /\ pending.ticks = 2
  /\ pending.events = MaxEvents
  /\ obs.targetsKept /\ obs.snapshotKept
  /\ scene.cameraMoved = FALSE
  /\ "w" \in scene.keys

\* C26: once moveTo, rotateX, rotateY or resetRotation has been called, target is
\* position + (sin(yaw)cos(pitch), -sin(pitch), cos(yaw)cos(pitch)) * 5 in every
\* state; moveTo leaves pitch and yaw as they were; setFOV and setAspect leave
\* position, target, pitch and yaw as they were.
C26_TargetDerived ==
  /\ pending.derived =>
       camera.target = add(camera.position,
                           mul(direction(Sin(camera.pitch), Cos(camera.pitch),
                                         Sin(camera.yaw), Cos(camera.yaw)), 5 * Milli))
  /\ obs.op = "moveTo" =>
       /\ camera.pitch = obs.from.pitch
       /\ camera.yaw = obs.from.yaw
  /\ obs.op \in {"setFOV", "setAspect"} =>
       /\ camera.position = obs.from.position
       /\ camera.target = obs.from.target
       /\ camera.pitch = obs.from.pitch
       /\ camera.yaw = obs.from.yaw

\* A rotated camera was moved and its aspect set afterwards.
C26_Witness ==
  /\ pending.derived
  /\ obs.op = "setAspect"
  /\ camera.yaw # 0
  /\ camera.position \in Positions
  /\ camera.target # camera.position

\* What the cached matrices are computed from.
matrixInputs(c) == <<c.position, c.target, c.up, c.fov, c.aspect, c.near, c.far>>

\* C29: whenever matricesDirty is false, the cached view and projection matrices
\* are the ones recomputed from the current position, target, up, fov, aspect,
\* near and far; a call that changed one of those left the flag set.
C29_CleanMeansCurrent ==
  /\ ~camera.matricesDirty =>
       /\ camera.viewMatrix = calculateViewMatrix(camera)
       /\ camera.projectionMatrix = calculateProjectionMatrix(camera)
  /\ (obs.op # "constructor" /\ matrixInputs(obs.from) # matrixInputs(camera)) =>
       camera.matricesDirty

\* A getter refreshed the matrices of a camera whose aspect and angles had changed.
C29_Witness ==
  /\ ~camera.matricesDirty
  /\ obs.op = "getViewMatrix"
  /\ obs.from.matricesDirty
  /\ camera.aspect = Milli
  /\ pending.derived

\* --------------------------------------------- claims on the targets' life

Width(id) == gpu.textures[id].width
Height(id) == gpu.textures[id].height

\* C27: after construction and after every updateRenderSettings call, the low-res
\* target has the settings' render dimensions, the accumulation and snapshot
\* targets both the settings' display dimensions, and the copy-dimensions store
\* holds those display dimensions.
C27_TargetsMatchSettings ==
  /\ Width(rt.renderTexture) = rt.renderSettings.renderWidth
  /\ Height(rt.renderTexture) = rt.renderSettings.renderHeight
  /\ Width(rt.lastFrameBuffer) = rt.renderSettings.displayWidth
  /\ Height(rt.lastFrameBuffer) = rt.renderSettings.displayHeight
  /\ Width(rt.accumulatedFrameTexture) = rt.renderSettings.displayWidth
  /\ Height(rt.accumulatedFrameTexture) = rt.renderSettings.displayHeight
  /\ rt.copyDimensionsBuffer
       = <<rt.renderSettings.displayWidth, rt.renderSettings.displayHeight>>

\* An update that replaced the low-res target by one of height 3 and changed
\* the display width to 6.
C27_Witness ==
  /\ obs.op = "updateRenderSettings"
  /\ ~obs.sameDisplay
  /\ rt.renderTexture = 4
  /\ Height(4) = 3
  /\ rt.copyDimensionsBuffer[1] = 6
  /\ rt.copyDimensionsBuffer # <<InitialSettings.displayWidth, InitialSettings.displayHeight>>

\* The textures whose views the passes of render and resetAccumulation use: the
\* compute bind group's output, the display bind group's three textures as
\* render binds them, the copy pass's source and attachment, the clear pass's
\* attachment.
PassTextures ==
  {rt.computeBindGroup.outputTexture, rt.renderTextureView,
   rt.accumulatedFrameTextureView, rt.lastFrameBufferView}

\* C28: whatever updateRenderSettings, updateCamera, resetAccumulation and render
\* calls came before, the passes render and resetAccumulation submit use views of
\* live textures only.
C28_PassesUseLiveTextures == \A id \in PassTextures : IsLive(gpu, id)

\* A render call that followed a replacement of all three targets and wrote the
\* new low-res target.
C28_Witness ==
  /\ obs.op = "render"
  /\ obs.afterSettings
  /\ rt.computeBindGroup.outputTexture = 4
  /\ rt.lastFrameBuffer = 5
  /\ rt.accumulatedFrameTexture = 6
  /\ gpu.textures[4].texel.a = MaxLevel
  /\ \A id \in 1..3 : ~IsLive(gpu, id)

\* C30: after any sequence of updateRenderSettings calls the orchestrator owns
\* exactly three live textures, the low-res, the snapshot and the accumulation
\* target, and no other texture is live; a replaced texture was destroyed once,
\* before its replacement was created (never more than three are live at once);
\* no texture was destroyed twice.
C30_ThreeOwnedTextures ==
  /\ LiveTextures(gpu) = {rt.renderTexture, rt.lastFrameBuffer, rt.accumulatedFrameTexture}
  /\ Cardinality(LiveTextures(gpu)) = 3
  /\ gpu.mostLive = 3
  /\ \A id \in TextureIds :
       /\ gpu.textures[id].destroyCalls <= 1
       /\ gpu.textures[id].state = "destroyed" <=> gpu.textures[id].destroyCalls = 1
       /\ id < gpu.nextTextureId <=> gpu.textures[id].state # "none"

\* An update replaced all three textures of the constructor.
C30_Witness ==
  /\ obs.op = "updateRenderSettings"
  /\ gpu.nextTextureId = 7
  /\ rt.renderTexture = 4
  /\ \A id \in 1..3 : gpu.textures[id].destroyCalls = 1
  /\ LiveTextures(gpu) = {4, 5, 6}

====
